---- MODULE Spec2Model ----
(***************************************************************************)
(* Job lifecycle core of jiftoo/voice: the job registry of src/src/web.rs  *)
(* (TaskManager: admission, lookup, sweeper), the websocket forwarding     *)
(* loop, the download handler, and the Job (crate::task::Task) the         *)
(* registry stores, with its broadcast channel; FFmpeg::analyze_silence    *)
(* and the audible ranges of voice-analyzer/src/ffmpeg.rs; and the stage   *)
(* chain of src/src/task.rs with the worker threads and the ffmpeg         *)
(* children of src/src/ffmpeg.rs; the locks of the registry; and the       *)
(* uploads of the RemoteFileManager of voice-shared/src/lib.rs.            *)
(*                                                                         *)
(* crate::task::Task, TaskId, TaskStatus and TaskUpdateMessage are used by *)
(* web.rs but their defining file is not part of the source tree; they are *)
(* modelled from spec.md sections 3 and 4.2.                               *)
(***************************************************************************)
EXTENDS Integers, Sequences, FiniteSets, TLC

VARIABLES
    tasks,   \* TaskManager.tasks : HashMap<TaskId, Task>, a function on its keys;
             \* a Task also counts the messages sent on its channel and keeps the last
    ins,     \* names of the files in CONFIG.inputs_dir
    outs,    \* names of the files in CONFIG.outputs_dir
    adm,     \* the new_task call in flight: position, generated id, returned value
    sw,      \* the task cleaner: position in its loop and directory entries left
    subs,    \* websocket handlers: receiver of a Job's broadcast channel
    now,     \* wall clock, in minutes
    dl,      \* the videos request in flight: position, requested id, response
    enc,     \* an EncodingTask<Running> of src/src/task.rs: its stage, the worker
             \* thread of the stage, the progress cell, completed_stages, the poller
    an,      \* an FFmpeg::analyze_silence call of voice-analyzer: the children it
             \* spawned, the output it reads, the parser, the ranges, the result
    rt,      \* a TaskId on its way to a file name and back
    bc,      \* a Job's broadcast channel at its capacity: the ring of messages
             \* and the position of each receiver
    rq,      \* the last status request: the id asked for and the response
    lk,      \* the lock of the map and the status lock of a Job: who holds
             \* them, and where each task that takes them stands
    fs       \* the remote file store: the files under each identifier

vars == <<tasks, ins, outs, adm, sw, subs, now, dl, enc, an, rt, bc, rq, lk, fs>>

----------------------------------------------------------------------------
(* Bounds of the model *)

MaxTime == 2         \* the clock stops at MaxTime
MaxSamples == 1      \* progress samples an encoder emits per Job
MaxCancels == 2      \* cancel() calls per Job
MaxWarned == 2       \* "tx closed" warnings of a websocket loop are counted modulo MaxWarned
DeleteFilesAfterMinutes == 1   \* CONFIG.delete_files_after_minutes, in clock units
MediaDuration == 2   \* duration of an uploaded file, in seconds
MaxFrames == 2       \* nb_frames of ffprobe is in 1..MaxFrames, a frame number in 0..MaxFrames
MaxPeriods == 3      \* audible periods detect_silence finds: 0..MaxPeriods
MaxDuration == 3     \* the "Duration: " banner of an analysed file is in 1..MaxDuration
MaxLines == 6        \* lines of stdout analyze_silence reads
IdBits == 7          \* width of a TaskId: ids are 0 .. 2^IdBits - 1
BroadcastCapacity == 2   \* capacity of a Job's broadcast channel
MaxPublished == 3    \* progress samples published on the channel at its capacity
MaxPuts == 3         \* write requests made to the bucket

TaskIds == {1, 2}    \* the ids Task::gen_id() draws from
SoloIds == {1}       \* ... when every admission draws the same id
Subscribers == {1}   \* websocket connections
Receivers == {1, 2}  \* receivers of the channel at its capacity
None == 0 - 1        \* Option::None of a field that holds a number

----------------------------------------------------------------------------
(* TaskId <-> file name (decimal representation) *)

Digits == <<"0", "1", "2", "3", "4", "5", "6", "7", "8", "9">>

DigitValue(c) == CHOOSE d \in 0..9 : Digits[d + 1] = c

IsDigit(c) == \E d \in 0..9 : Digits[d + 1] = c

\* to_string that writes the digits least significant first
RECURSIVE to_string_reversed(_)
to_string_reversed(n) ==
    IF n < 10 THEN <<Digits[n + 1]>>
    ELSE <<Digits[(n % 10) + 1]>> \o to_string_reversed(n \div 10)

RECURSIVE to_string(_)
to_string(n) ==
    IF n < 10 THEN <<Digits[n + 1]>>
    ELSE Append(to_string(n \div 10), Digits[(n % 10) + 1])

RECURSIVE DecimalValue(_)
DecimalValue(s) ==
    IF s = <<>> THEN 0
    ELSE 10 * DecimalValue(SubSeq(s, 1, Len(s) - 1)) + DigitValue(s[Len(s)])

ParseError == 0 - 2

\* the largest TaskId
MaxId == 2^IdBits - 1

\* file_name.parse::<TaskId>() : Ok(id), or Err for an empty string, for a
\* character that is no digit and for a number that does not fit a TaskId
parse_TaskId(s) ==
    IF s = <<>> \/ (\E i \in 1..Len(s) : ~IsDigit(s[i])) THEN ParseError
    ELSE IF DecimalValue(s) > MaxId THEN ParseError
    ELSE DecimalValue(s)

JunkName == <<"t", "m", "p">>     \* a file whose name is not a TaskId

----------------------------------------------------------------------------
(* TaskStatus *)

InProgress(p, s) == [type |-> "InProgress", progress |-> p, speed |-> s]
Error(m) == [type |-> "Error", message |-> m]
Completed(t) == [type |-> "Completed", end_time |-> t]

IsTerminal(st) == st.type \in {"Error", "Completed"}

\* progress is kept in halves of the post-encode playtime: ProgressOne is 1.0
ProgressOne == 2
\* the samples an encoder emits: <<out_time, speed>>, None for a key not carried
Samples == {<<1, None>>}

Clamp(x) == IF x < 0 THEN 0 ELSE IF x > ProgressOne THEN ProgressOne ELSE x

\* a sample that resets the field it does not carry
OnSample_reset(st, out, speed) ==
    InProgress(IF out = None THEN 0 ELSE Clamp(out),
               IF speed = None THEN 0 ELSE speed)

\* the status a progress sample (out_time, speed) turns the current one into
OnSample(st, out, speed) ==
    InProgress(IF out = None THEN st.progress ELSE Clamp(out),
               IF speed = None THEN st.speed ELSE speed)

----------------------------------------------------------------------------
(* VideoAnalysis: the audible ranges, from the silent ranges and the duration *)

Range(a, b) == [start |-> a, end |-> b]

\* VideoAnalysis::new(silence, duration), silence not empty
VideoAnalysis_new(silence, duration) ==
    LET head == Range(0, silence[1].start)
        tail == Range(silence[Len(silence)].end, duration)
        \* silence.iter().fold(0.0, |prev, range| { push(prev..range.start); range.end })
        folded == [i \in 1..Len(silence) |->
                      Range(IF i = 1 THEN 0 ELSE silence[i - 1].end, silence[i].start)]
        audible == <<head>> \o folded \o <<tail>>
    IN  [ audible   |-> SelectSeq(audible, LAMBDA x : x.start # x.end),
          inaudible |-> silence,
          duration  |-> duration ]

\* sum of the lengths of the audible ranges
RECURSIVE post_encode_playtime(_)
post_encode_playtime(audible) ==
    IF audible = <<>> THEN 0
    ELSE (Head(audible).end - Head(audible).start) + post_encode_playtime(Tail(audible))

\* what silencedetect reports for the files uploaded: silence from start to
\* end, or silence over the first second only
JobSilences == {<<Range(0, MediaDuration)>>, <<Range(0, 1)>>}

----------------------------------------------------------------------------
(* Job *)

\* Task::new : the Job as constructed, supervisor launched
Task_new(id) ==
    [ id           |-> id,
      last_status  |-> InProgress(0, 0),
      completed_at |-> None,
      worker       |-> "Analyse",
      analysed     |-> FALSE,
      audible      |-> <<>>,
      samples      |-> 0,
      cancels      |-> 0,
      sent         |-> 0,
      last_sent    |-> <<>> ]

\* the receivers a message sent on Job j's channel reaches
Attached(s, j) == subs[s].st = "open" /\ subs[s].job = j /\ ~subs[s].tx_closed

\* tx.send((id, status)) : every attached receiver gets the message
Send(j, st) ==
    [s \in Subscribers |->
        IF Attached(s, j)
        THEN [subs[s] EXCEPT !.pend = Append(@, <<j, st>>)]
        ELSE subs[s]]

\* SetStatus that stores the status without publishing it
SetStatus_unpublished(t, st) ==
    [t EXCEPT !.last_status = st,
              !.completed_at = IF IsTerminal(st) /\ @ = None THEN now ELSE @]

\* SetStatus that stamps completed_at at every terminal status, not the first
SetStatus_restamp(t, st) ==
    [t EXCEPT !.last_status = st,
              !.sent = @ + 1,
              !.last_sent = <<t.id, st>>,
              !.completed_at = IF IsTerminal(st) THEN now ELSE @]

\* store the status, then publish it, under the Job's status lock
SetStatus(t, st) ==
    [t EXCEPT !.last_status = st,
              !.sent = @ + 1,
              !.last_sent = <<t.id, st>>,
              !.completed_at = IF IsTerminal(st) /\ @ = None THEN now ELSE @]

----------------------------------------------------------------------------
(* The stage chain of src/src/task.rs: EncodingTask<Running>::poll drives  *)
(* an EncodingStage through its stages; the stages CountFrames to Concat   *)
(* each run an ffmpeg child on a worker thread (FFMpegThreadFuture).       *)

\* a progress cell Arc<Mutex<f32>> holds the quotient n / d, kept unreduced
Ratio(n, d) == [n |-> n, d |-> d]

Stages == <<"Idle", "CountFrames", "DetectSilence", "Split", "Concat", "Move",
            "ReEncode", "Cleanup", "Complete">>

\* the stages whose future is an FFMpegThreadFuture
ThreadStages == {"CountFrames", "DetectSilence", "Split", "Concat"}

\* EncodingTask::new(file_handle).start(): Idle, its progress cell at 1.0
EncodingTask_new ==
    [ stage            |-> "Idle",
      thread           |-> "None",
      progress         |-> Ratio(1, 1),
      frames           |-> None,
      periods          |-> None,
      spawned          |-> 0,
      processed        |-> 0,
      children         |-> 0,      \* children of the stage's thread that run
      pending          |-> FALSE,  \* split_fragments has spawned a child it has
                                   \* not yet put in the place of a pooled one
      should_abort     |-> FALSE,
      observed         |-> FALSE,  \* the thread has loaded should_stop as true
      completed_stages |-> <<>>,
      poller           |-> "ok" ]

\* FFMpegThreadFuture::poll : the status cell, which the thread writes only
\* when its closure returns; a thread that panicked leaves it at Running
FFMpegThreadFuture_poll ==
    IF enc.thread \in {"Finished", "Aborted"} THEN enc.thread ELSE "Running"

\* a chain that goes from ReEncode straight to Complete
next_stage_without_cleanup(s) ==
    IF s = "ReEncode" THEN "Complete"
    ELSE Stages[(CHOOSE i \in 1..Len(Stages) : Stages[i] = s) + 1]

\* the stage after s
next_stage(s) == Stages[(CHOOSE i \in 1..Len(Stages) : Stages[i] = s) + 1]

\* EncodingStage::advance, then EncodingTask::poll's bookkeeping
advance(io_ok) ==
    LET s == enc.stage
        moves == \/ s \in {"Idle", "Move", "ReEncode"}
                 \/ s \in ThreadStages /\ FFMpegThreadFuture_poll = "Finished"
                 \/ s = "Cleanup" /\ io_ok
    IN  IF \/ s = "Cleanup" /\ ~io_ok
           \/ s \in ThreadStages /\ FFMpegThreadFuture_poll = "Aborted"
        THEN [enc EXCEPT !.poller = "panicked"]
        ELSE IF ~moves THEN enc
        ELSE [enc EXCEPT
                !.stage = next_stage(s),
                !.thread = IF next_stage(s) \in ThreadStages THEN "Running" ELSE "None",
                !.children = IF next_stage(s) \in ThreadStages \ {"Split"} THEN 1 ELSE 0,
                !.should_abort = FALSE,
                !.observed = FALSE,
                !.pending = FALSE,
                !.progress = IF next_stage(s) \in ThreadStages
                             THEN Ratio(0, 1) ELSE Ratio(1, 1),
                !.completed_stages =
                    IF next_stage(s) = "Complete" THEN @ ELSE Append(@, s)]

\* task.poll() by the owner of the task; io_ok: read_dir and remove_file succeed
EncodingTask_poll(io_ok) ==
    /\ enc.poller = "ok"
    /\ enc.stage # "Complete"
    /\ enc' = advance(io_ok)
    /\ enc' # enc
    /\ UNCHANGED <<tasks, ins, outs, adm, sw, subs, now, dl, an, rt, bc, rq, lk, fs>>

\* get_frame_length's thread: ffprobe exits; a failure or an unparseable
\* nb_frames panics the thread
get_frame_length(frames, ok) ==
    /\ enc.stage = "CountFrames" /\ enc.thread = "Running"
    /\ enc' = IF ok
              THEN [enc EXCEPT !.thread = "Finished", !.frames = frames,
                               !.children = 0, !.progress = Ratio(1, 1)]
              ELSE [enc EXCEPT !.thread = "Panicked", !.children = 0]
    /\ UNCHANGED <<tasks, ins, outs, adm, sw, subs, now, dl, an, rt, bc, rq, lk, fs>>

\* read_or_terminate with track_progress, one line "frame:frame_n ..." read
read_or_terminate(frame_n) ==
    /\ enc.stage = "DetectSilence" /\ enc.thread = "Running"
    /\ enc' = [enc EXCEPT !.progress = Ratio(frame_n, enc.frames)]
    /\ UNCHANGED <<tasks, ins, outs, adm, sw, subs, now, dl, an, rt, bc, rq, lk, fs>>

\* detect_silence's thread ends: Ok(VideoPeriods) with periods audible
\* periods between the silent ones, or panic!("ffmpeg error")
detect_silence(periods, ok) ==
    /\ enc.stage = "DetectSilence" /\ enc.thread = "Running"
    /\ enc' = IF ok THEN [enc EXCEPT !.thread = "Finished", !.periods = periods,
                                     !.children = 0]
                    ELSE [enc EXCEPT !.thread = "Panicked", !.children = 0]
    /\ UNCHANGED <<tasks, ins, outs, adm, sw, subs, now, dl, an, rt, bc, rq, lk, fs>>

\* split_fragments' thread, one step of its for loop: checked_ilog10 of no
\* period panics; a child is spawned for the period; the first two children
\* are only kept; from the third on the child is spawned, then the thread
\* stores total_processed / total_periods and waits for a child it keeps to
\* exit (ok: with success) and puts the new child in its place; a failure
\* panics the thread and the Child handles are dropped
split_fragments(ok) ==
    /\ enc.stage = "Split" /\ enc.thread = "Running"
    /\ enc.periods = 0 \/ enc.spawned < enc.periods \/ enc.pending
    /\ enc' = IF enc.periods = 0 THEN [enc EXCEPT !.thread = "Panicked"]
              ELSE IF enc.pending
              THEN IF ok
                   THEN [enc EXCEPT !.progress = Ratio(enc.processed, enc.periods),
                                    !.processed = @ + 1,
                                    !.children = @ - 1,
                                    !.pending = FALSE]
                   ELSE [enc EXCEPT !.progress = Ratio(enc.processed, enc.periods),
                                    !.children = @ - 1,
                                    !.thread = "Panicked"]
              ELSE [enc EXCEPT !.spawned = @ + 1,
                               !.children = @ + 1,
                               !.pending = enc.spawned >= 2]
    /\ UNCHANGED <<tasks, ins, outs, adm, sw, subs, now, dl, an, rt, bc, rq, lk, fs>>

\* the thread of split_fragments (every child spawned and exited,
\* filenames.txt written) or of concat_fragments ends: Ok(()) , or a panic
\* if the write failed or the concat child exited with an error
thread_exit(ok) ==
    /\ enc.thread = "Running"
    /\ \/ enc.stage = "Split" /\ enc.periods > 0 /\ enc.spawned = enc.periods
                               /\ ~enc.pending
       \/ enc.stage = "Concat"
    /\ enc' = [enc EXCEPT !.thread = IF ok THEN "Finished" ELSE "Panicked",
                          !.children = 0]
    /\ UNCHANGED <<tasks, ins, outs, adm, sw, subs, now, dl, an, rt, bc, rq, lk, fs>>

\* FFMpegThreadFuture::abort : should_abort is set and the JoinHandle handed
\* over without waiting; the future is consumed, nobody polls the task again
FFMpegThreadFuture_abort ==
    /\ enc.poller = "ok"
    /\ enc.stage \in ThreadStages
    /\ enc' = [enc EXCEPT !.should_abort = TRUE, !.poller = "aborted"]
    /\ UNCHANGED <<tasks, ins, outs, adm, sw, subs, now, dl, an, rt, bc, rq, lk, fs>>

\* a thread that loads should_stop as true, leaves its loop and returns Ok
thread_killed_returns_ok ==
    /\ enc.stage \in {"DetectSilence", "Split", "Concat"}
    /\ enc.thread = "Running"
    /\ enc.should_abort
    /\ enc' = [enc EXCEPT !.thread = "Finished", !.observed = TRUE]
    /\ UNCHANGED <<tasks, ins, outs, adm, sw, subs, now, dl, an, rt, bc, rq, lk, fs>>

\* the thread loads should_stop as true (in read_or_terminate, in the loops
\* of split_fragments and concat_fragments; get_frame_length never looks):
\* return Err(AbortReason::Killed), the Child handles are dropped
thread_killed ==
    /\ enc.stage \in {"DetectSilence", "Split", "Concat"}
    /\ enc.thread = "Running"
    /\ enc.should_abort
    /\ enc' = [enc EXCEPT !.thread = "Aborted", !.observed = TRUE]
    /\ UNCHANGED <<tasks, ins, outs, adm, sw, subs, now, dl, an, rt, bc, rq, lk, fs>>

\* a child whose thread has ended comes to its own end
orphan_exits ==
    /\ enc.thread \in {"Aborted", "Panicked"}
    /\ enc.children > 0
    /\ enc' = [enc EXCEPT !.children = @ - 1]
    /\ UNCHANGED <<tasks, ins, outs, adm, sw, subs, now, dl, an, rt, bc, rq, lk, fs>>

----------------------------------------------------------------------------
(* FFmpeg::analyze_silence of voice-analyzer: the child's stdout is read   *)
(* line by line through OutputParser, the duration comes from the banner   *)
(* on stderr.                                                              *)

\* a line of stdout. key "start", "end", "duration": the line is
\* "lavfi.silence_<key>=<val>", val None when what follows "=" is no number;
\* key "frame": a line that does not start with "lavfi"
Line(key, val) == [key |-> key, val |-> val]

Lines ==
    {Line(k, v) : k \in {"start", "end", "duration"}, v \in (0..MaxDuration) \cup {None}}
        \cup {Line("frame", None)}

OutputParser_Start == [state |-> "Start", start |-> None, end |-> None]
OutputParser_End(start) == [state |-> "End", start |-> start, end |-> None]
OutputParser_Duration(start, end) == [state |-> "Duration", start |-> start, end |-> end]

\* OutputParser::parse_line(line, postfix): Ok(Some(n)), Ok(None) or Err
parse_line(line, postfix) ==
    IF line.key = postfix
    THEN IF line.val = None THEN [tag |-> "Err", n |-> None]
                            ELSE [tag |-> "Some", n |-> line.val]
    ELSE [tag |-> "None", n |-> None]

\* OutputParser::next(self, line): Err, or the next state and the range emitted
OutputParser_next(self, line) ==
    IF self.state = "Start"
    THEN LET r == parse_line(line, "start") IN
         IF r.tag = "Some"
         THEN [err |-> FALSE, next |-> OutputParser_End(r.n), range |-> <<>>]
         ELSE [err |-> TRUE, next |-> self, range |-> <<>>]
    ELSE IF self.state = "End"
    THEN LET r == parse_line(line, "end") IN
         IF r.tag = "Some"
         THEN [err |-> FALSE, next |-> OutputParser_Duration(self.start, r.n),
               range |-> <<>>]
         ELSE [err |-> TRUE, next |-> self, range |-> <<>>]
    ELSE [err |-> FALSE, next |-> OutputParser_Start,
          range |-> <<Range(self.start, self.end)>>]

\* the line is one silencedetect prints at this point of its output: the
\* three keys in turn, a start after the last end and before the end of the
\* file, an end after its start, the duration equal to end - start
FollowsSilencedetect(parser, ranges, duration, line) ==
    \/ line.key = "frame"
    \/ /\ parser.state = "Start" /\ line.key = "start"
       /\ line.val # None /\ line.val < duration
       /\ ranges = <<>> \/ line.val > ranges[Len(ranges)].end
    \/ /\ parser.state = "End" /\ line.key = "end"
       /\ line.val > parser.start /\ line.val <= duration
    \/ /\ parser.state = "Duration" /\ line.key = "duration"
       /\ line.val = parser.end - parser.start

\* FFmpeg::new(input), called when a file is to be analysed: nothing
\* spawned, nothing read
FFmpeg_new ==
    [ pc       |-> "idle",
      spawned  |-> 0,           \* children spawned by this call
      exit1    |-> "None",      \* exit status of the run whose output is read
      exit2    |-> "None",      \* exit status of the run status() waited for
      duration |-> None,
      read     |-> 0,           \* lines read
      lavfi    |-> 0,           \* lines given to the parser
      parser   |-> OutputParser_Start,
      ranges   |-> <<>>,
      wf       |-> TRUE,        \* the lines read so far are silencedetect's
      miskeyed |-> FALSE,       \* the line read last had a key the state did not expect
      ret      |-> "None",
      analysis |-> [audible |-> <<>>, inaudible |-> <<>>, duration |-> None] ]

ExitStatus(ok) == IF ok THEN "success" ELSE "failure"

Return(a, ret) == [a EXCEPT !.pc = "done", !.ret = ret]

\* ffmpeg.output().await? : a child is spawned and run to its end; stdout and
\* stderr are kept, its exit status is not looked at. duration is what the
\* banner on stderr says, None when there is no banner
analyze_silence_output(io_ok, exit_ok, duration) ==
    /\ an.pc = "idle"
    /\ an' = IF ~io_ok
             THEN Return([FFmpeg_new EXCEPT !.spawned = @ + 1], "Err(IO)")
             ELSE [FFmpeg_new EXCEPT !.pc = "status", !.spawned = @ + 1,
                                     !.exit1 = ExitStatus(exit_ok),
                                     !.duration = duration]
    /\ UNCHANGED <<tasks, ins, outs, adm, sw, subs, now, dl, enc, rt, bc, rq, lk, fs>>

\* ffmpeg.status().await.unwrap() : the command is spawned again and waited
\* for; Err(FFmpeg(stderr_text)) if this run failed; then the banner is
\* parsed, with unwrap
analyze_silence_status(io_ok, exit_ok) ==
    /\ an.pc = "status"
    /\ an' = IF ~io_ok
             THEN Return([an EXCEPT !.spawned = @ + 1], "panic")
             ELSE IF ~exit_ok
             THEN Return([an EXCEPT !.spawned = @ + 1, !.exit2 = "failure"],
                         "Err(FFmpeg)")
             ELSE IF an.duration = None
             THEN Return([an EXCEPT !.spawned = @ + 1, !.exit2 = "success"], "panic")
             ELSE [an EXCEPT !.pc = "lines", !.spawned = @ + 1, !.exit2 = "success"]
    /\ UNCHANGED <<tasks, ins, outs, adm, sw, subs, now, dl, enc, rt, bc, rq, lk, fs>>

\* one turn of `for line in stdout.lines()`: a line that starts with "lavfi"
\* goes to the parser, `?` returns its error; any other line is skipped
analyze_silence_line(line) ==
    /\ an.pc = "lines"
    /\ an.read < MaxLines
    /\ LET a == [an EXCEPT
                   !.read = @ + 1,
                   !.wf = @ /\ FollowsSilencedetect(an.parser, an.ranges,
                                                    an.duration, line),
                   !.miskeyed = /\ line.key # "frame"
                                /\ line.key # CASE an.parser.state = "Start" -> "start"
                                                [] an.parser.state = "End" -> "end"
                                                [] OTHER -> "duration"]
           r == OutputParser_next(an.parser, line)
       IN  an' = IF line.key = "frame" THEN a
                 ELSE IF r.err THEN Return(a, "Err(IO)")
                 ELSE [a EXCEPT !.lavfi = @ + 1,
                                !.parser = r.next,
                                !.ranges = @ \o r.range]
    /\ UNCHANGED <<tasks, ins, outs, adm, sw, subs, now, dl, enc, rt, bc, rq, lk, fs>>

\* stdout is exhausted: no range is an error; a start without its end is
\* closed at the duration; Ok(VideoAnalysis::new(ranges, video_duration))
analyze_silence_return ==
    /\ an.pc = "lines"
    /\ an' = IF an.ranges = <<>>
             THEN Return(an, "Err(FFmpeg)")
             ELSE LET ranges == IF an.parser.state = "End"
                                THEN Append(an.ranges,
                                            Range(an.parser.start, an.duration))
                                ELSE an.ranges
                  IN  [Return(an, "Ok") EXCEPT
                         !.ranges = ranges,
                         !.analysis = VideoAnalysis_new(ranges, an.duration)]
    /\ UNCHANGED <<tasks, ins, outs, adm, sw, subs, now, dl, enc, rt, bc, rq, lk, fs>>

----------------------------------------------------------------------------
(* A TaskId from Task::gen_id() to the name of its input file (new_task)   *)
(* and from the name of a directory entry back (cleanup_task_files).       *)

\* Task::gen_id()
Task_gen_id(id) ==
    /\ rt.pc = "idle"
    /\ rt' = [rt EXCEPT !.pc = "id", !.id = id]
    /\ UNCHANGED <<tasks, ins, outs, adm, sw, subs, now, dl, enc, an, bc, rq, lk, fs>>

\* let task_id_string = task_id.to_string();
new_task_to_string ==
    /\ rt.pc = "id"
    /\ rt' = [rt EXCEPT !.pc = "named", !.name = to_string(rt.id)]
    /\ UNCHANGED <<tasks, ins, outs, adm, sw, subs, now, dl, enc, an, bc, rq, lk, fs>>

\* file_name.parse::<TaskId>()
cleanup_parse ==
    /\ rt.pc = "named"
    /\ rt' = [rt EXCEPT !.pc = "parsed", !.parsed = parse_TaskId(rt.name)]
    /\ UNCHANGED <<tasks, ins, outs, adm, sw, subs, now, dl, enc, an, bc, rq, lk, fs>>

----------------------------------------------------------------------------
(* The broadcast channel of a Job at its capacity: the sender keeps the    *)
(* last BroadcastCapacity messages; a receiver that fell behind the oldest *)
(* of them gets Lagged(n) and goes on from the oldest.                     *)

\* channel(BroadcastCapacity), every receiver subscribed; position i is the
\* i-th message sent, ring holds the positions sent - Len(ring) + 1 .. sent
\* no sample: neither key carried
NoSample == <<None, None>>

\* the progress samples the encoder of this Job emits: speed alone, out_time
\* alone (1 is half of the playtime), both (2 is the whole playtime)
BroadcastSamples == {<<None, 3>>, <<1, None>>, <<2, 3>>}

Channel_new ==
    [ open |-> TRUE,
      sent |-> 0,
      ring |-> <<>>,
      done |-> FALSE,       \* the supervisor has published a terminal status
      cancelled |-> FALSE,  \* cancel() has published its Completed
      status |-> InProgress(0, 0),     \* last_status of the Job
      sample |-> NoSample,             \* the sample the supervisor has read
      speed_seen |-> FALSE,            \* the encoder has emitted a speed
      log  |-> <<>>,                   \* every status published, in order
      rx   |-> [r \in Receivers |->
                  [st |-> "open", next |-> 1, lagged |-> 0, got |-> 0,
                   seen |-> <<>>]] ]

Oldest(c) == c.sent - Len(c.ring) + 1

\* the ring after one more message
Push(ring, msg) ==
    IF Len(ring) < BroadcastCapacity THEN Append(ring, msg)
    ELSE Append(Tail(ring), msg)

\* a receiver still needs the oldest message of a full ring
Behind(c) ==
    /\ Len(c.ring) = BroadcastCapacity
    /\ \E r \in Receivers : c.rx[r].st = "open" /\ c.rx[r].next <= Oldest(c)

\* the Job after its status is set to st and (id, st) is sent, both under the
\* status lock
Published(c, st) ==
    [c EXCEPT !.sent = @ + 1,
              !.ring = Push(@, <<1, st>>),
              !.status = st,
              !.log = Append(@, st),
              !.sample = NoSample]

\* Task::new creates the channel of the Job; the receivers subscribe
Task_new_channel ==
    /\ ~bc.open
    /\ bc' = Channel_new
    /\ UNCHANGED <<tasks, ins, outs, adm, sw, subs, now, dl, enc, an, rt, rq, lk, fs>>

\* the supervisor reads one progress sample of the encoder
encoder_emits(out, speed) ==
    /\ bc.open /\ ~bc.done /\ ~bc.cancelled
    /\ bc.sample = NoSample
    /\ bc.sent < MaxPublished
    /\ bc' = [bc EXCEPT !.sample = <<out, speed>>,
                        !.speed_seen = @ \/ speed # None]
    /\ UNCHANGED <<tasks, ins, outs, adm, sw, subs, now, dl, enc, an, rt, rq, lk, fs>>

\* publish that waits for room, as a sender of a bounded queue would
publish_when_room(st) ==
    /\ bc.open /\ ~bc.done /\ ~bc.cancelled
    /\ ~Behind(bc)
    /\ IsTerminal(st) \/ bc.sent < MaxPublished
    /\ bc' = [Published(bc, st) EXCEPT !.done = IsTerminal(st)]
    /\ UNCHANGED <<tasks, ins, outs, adm, sw, subs, now, dl, enc, an, rt, rq, lk, fs>>

\* the supervisor sets and publishes a status: tx.send((id, status)) returns
\* at once, the oldest message of a full ring is overwritten
publish(st) ==
    /\ bc.open /\ ~bc.done /\ ~bc.cancelled
    /\ IsTerminal(st) \/ bc.sent < MaxPublished
    /\ bc' = [Published(bc, st) EXCEPT !.done = IsTerminal(st)]
    /\ UNCHANGED <<tasks, ins, outs, adm, sw, subs, now, dl, enc, an, rt, rq, lk, fs>>

\* step 3 of the supervisor: the status computed from the sample it has read
\* is stored and published
supervisor_on_sample ==
    /\ bc.open
    /\ bc.sample # NoSample
    /\ publish(OnSample(bc.status, bc.sample[1], bc.sample[2]))

\* step 4 of the supervisor: the encoder has ended after its last sample
supervisor_on_exit(st) ==
    /\ bc.open
    /\ bc.sample = NoSample
    /\ publish(st)

\* the first cancel() of the Job: the supervisor is aborted, Completed is
\* stored and published under the status lock, whatever the status was
cancel_publish ==
    /\ bc.open /\ ~bc.cancelled
    /\ bc' = [Published(bc, Completed(now)) EXCEPT !.cancelled = TRUE]
    /\ UNCHANGED <<tasks, ins, outs, adm, sw, subs, now, dl, enc, an, rt, rq, lk, fs>>

\* a forwarding loop that takes the newest message of the ring first
ws_handler_turn_newest(r) ==
    /\ bc.open
    /\ bc.rx[r].st = "open"
    /\ bc.rx[r].next <= bc.sent
    /\ LET x == bc.rx[r] IN
       bc' = IF x.next < Oldest(bc)
             THEN [bc EXCEPT !.rx[r] =
                      [x EXCEPT !.lagged = @ + (Oldest(bc) - x.next),
                                !.next = Oldest(bc)]]
             ELSE LET msg == bc.ring[Len(bc.ring) - (x.next - Oldest(bc))] IN
                  [bc EXCEPT !.rx[r] =
                      [x EXCEPT !.next = @ + 1,
                                !.got = @ + 1,
                                !.seen = Append(@, msg[2]),
                                !.st = IF IsTerminal(msg[2]) THEN "closed" ELSE "open"]]
    /\ UNCHANGED <<tasks, ins, outs, adm, sw, subs, now, dl, enc, an, rt, rq, lk, fs>>

\* a forwarding loop that ends when it is told it lagged
ws_handler_turn_lag_breaks(r) ==
    /\ bc.open
    /\ bc.rx[r].st = "open"
    /\ bc.rx[r].next <= bc.sent
    /\ LET x == bc.rx[r] IN
       bc' = IF x.next < Oldest(bc)
             THEN [bc EXCEPT !.rx[r] =
                      [x EXCEPT !.lagged = @ + (Oldest(bc) - x.next),
                                !.next = Oldest(bc),
                                !.st = "closed"]]
             ELSE LET msg == bc.ring[x.next - Oldest(bc) + 1] IN
                  [bc EXCEPT !.rx[r] =
                      [x EXCEPT !.next = @ + 1,
                                !.got = @ + 1,
                                !.seen = Append(@, msg[2]),
                                !.st = IF IsTerminal(msg[2]) THEN "closed" ELSE "open"]]
    /\ UNCHANGED <<tasks, ins, outs, adm, sw, subs, now, dl, enc, an, rt, rq, lk, fs>>

\* one turn of the forwarding loop on this channel: Err(Lagged(n)) is logged,
\* Ok(msg) is forwarded and a terminal msg ends the loop
ws_handler_turn(r) ==
    /\ bc.open
    /\ bc.rx[r].st = "open"
    /\ bc.rx[r].next <= bc.sent
    /\ LET x == bc.rx[r] IN
       bc' = IF x.next < Oldest(bc)
             THEN [bc EXCEPT !.rx[r] =
                      [x EXCEPT !.lagged = @ + (Oldest(bc) - x.next),
                                !.next = Oldest(bc)]]
             ELSE LET msg == bc.ring[x.next - Oldest(bc) + 1] IN
                  [bc EXCEPT !.rx[r] =
                      [x EXCEPT !.next = @ + 1,
                                !.got = @ + 1,
                                !.seen = Append(@, msg[2]),
                                !.st = IF IsTerminal(msg[2]) THEN "closed" ELSE "open"]]
    /\ UNCHANGED <<tasks, ins, outs, adm, sw, subs, now, dl, enc, an, rt, rq, lk, fs>>

----------------------------------------------------------------------------
(* The locks: TaskManager.tasks is a tokio RwLock around the map, given to *)
(* its waiters in the order they came; each Task has a status lock.        *)

LockJobs == {1, 2}
Writers == {"cleaner", "new_task"}
Readers == {"status", "status_ws"}
Supervisors == {"supervisor1", "supervisor2"}
Lockers == Writers \cup Readers \cup Supervisors

JobOf(p) == IF p = "supervisor1" THEN 1 ELSE 2

Locks_new ==
    [ on   |-> TRUE,
      keys |-> {},                                \* the keys of the map
      w    |-> "none",                            \* holder of tasks.write()
      r    |-> {},                                \* holders of tasks.read()
      q    |-> <<>>,                              \* the tasks waiting for the map
      st   |-> [j \in LockJobs |-> "none"],       \* holder of each status lock
      pc   |-> [p \in Lockers |-> "idle"],
      todo |-> {},                                \* Tasks the cleaner has yet to read
      t    |-> [p \in Readers |-> None] ]         \* the id each handler asks for

\* TaskManager::new(): the lock around the empty map
TaskManager_new ==
    /\ ~lk.on
    /\ lk' = Locks_new
    /\ UNCHANGED <<tasks, ins, outs, adm, sw, subs, now, dl, enc, an, rt, bc, rq, fs>>

\* the task at the head of the waiters of the map
IsNext(l, p) == l.q # <<>> /\ Head(l.q) = p

\* self.tasks.write().await is reached: cleanup_tasks after its sleep,
\* new_task after Task::new
tasks_write(p) ==
    /\ lk.on /\ p \in Writers
    /\ lk.pc[p] = "idle"
    /\ lk' = [lk EXCEPT !.pc[p] = "wait_w", !.q = Append(@, p)]
    /\ UNCHANGED <<tasks, ins, outs, adm, sw, subs, now, dl, enc, an, rt, bc, rq, fs>>

\* cleanup_tasks is given the exclusive lock and starts its loop over the map
cleanup_tasks_locked ==
    /\ lk.on
    /\ lk.pc["cleaner"] = "wait_w"
    /\ IsNext(lk, "cleaner")
    /\ lk.w = "none" /\ lk.r = {}
    /\ lk' = [lk EXCEPT !.w = "cleaner", !.pc["cleaner"] = "iter", !.todo = lk.keys,
                        !.q = Tail(@)]
    /\ UNCHANGED <<tasks, ins, outs, adm, sw, subs, now, dl, enc, an, rt, bc, rq, fs>>

\* task.last_status().await inside the loop: the status lock of the Task is
\* taken, read and released
cleanup_tasks_last_status(j) ==
    /\ lk.on
    /\ lk.pc["cleaner"] = "iter"
    /\ j \in lk.todo
    /\ lk.st[j] = "none"
    /\ lk' = [lk EXCEPT !.todo = @ \ {j}]
    /\ UNCHANGED <<tasks, ins, outs, adm, sw, subs, now, dl, enc, an, rt, bc, rq, fs>>

\* tasks_lock.retain(..), then the guard is dropped
cleanup_tasks_retain(keys_to_delete) ==
    /\ lk.on
    /\ lk.pc["cleaner"] = "iter"
    /\ lk.todo = {}
    /\ keys_to_delete \subseteq lk.keys
    /\ lk' = [lk EXCEPT !.keys = @ \ keys_to_delete,
                        !.w = "none",
                        !.pc["cleaner"] = "idle"]
    /\ UNCHANGED <<tasks, ins, outs, adm, sw, subs, now, dl, enc, an, rt, bc, rq, fs>>

\* self.tasks.write().await.insert(task_id, task): the guard is a temporary
new_task_locked(task_id) ==
    /\ lk.on
    /\ lk.pc["new_task"] = "wait_w"
    /\ IsNext(lk, "new_task")
    /\ lk.w = "none" /\ lk.r = {}
    /\ lk' = [lk EXCEPT !.keys = @ \cup {task_id}, !.pc["new_task"] = "idle",
                        !.q = Tail(@)]
    /\ UNCHANGED <<tasks, ins, outs, adm, sw, subs, now, dl, enc, an, rt, bc, rq, fs>>

\* a handler calls get_task(id): self.tasks.read().await is reached
get_task_read(p, id) ==
    /\ lk.on /\ p \in Readers
    /\ lk.pc[p] = "idle"
    /\ lk' = [lk EXCEPT !.pc[p] = "wait_r", !.t[p] = id, !.q = Append(@, p)]
    /\ UNCHANGED <<tasks, ins, outs, adm, sw, subs, now, dl, enc, an, rt, bc, rq, fs>>

\* get_task is given the shared lock: None drops the guard, Some keeps it
\* mapped to the Task
get_task_locked(p) ==
    /\ lk.on /\ p \in Readers
    /\ lk.pc[p] = "wait_r"
    /\ IsNext(lk, p)
    /\ lk.w = "none"
    /\ lk' = IF lk.t[p] \in lk.keys
             THEN [lk EXCEPT !.r = @ \cup {p}, !.pc[p] = "guard", !.q = Tail(@)]
             ELSE [lk EXCEPT !.pc[p] = "idle", !.q = Tail(@)]
    /\ UNCHANGED <<tasks, ins, outs, adm, sw, subs, now, dl, enc, an, rt, bc, rq, fs>>

\* a handler that calls get_task a second time while it keeps the guard of
\* the first call
handler_last_status_second_get_task(p) ==
    /\ lk.on /\ p \in Readers
    /\ lk.pc[p] = "guard"
    /\ lk.w = "none" /\ lk.q = <<>>
    /\ lk.st[lk.t[p]] = "none"
    /\ lk' = [lk EXCEPT !.r = @ \ {p}, !.pc[p] = "idle"]
    /\ UNCHANGED <<tasks, ins, outs, adm, sw, subs, now, dl, enc, an, rt, bc, rq, fs>>

\* status: last_status().await; status_ws: subscribe().await; the status
\* lock of the Task is taken and released, then the guard is dropped
handler_last_status(p) ==
    /\ lk.on /\ p \in Readers
    /\ lk.pc[p] = "guard"
    /\ lk.st[lk.t[p]] = "none"
    /\ lk' = [lk EXCEPT !.r = @ \ {p}, !.pc[p] = "idle"]
    /\ UNCHANGED <<tasks, ins, outs, adm, sw, subs, now, dl, enc, an, rt, bc, rq, fs>>

\* the supervisor of a Job comes to set a status
SetStatus_request(p) ==
    /\ lk.on /\ p \in Supervisors
    /\ lk.pc[p] = "idle"
    /\ lk' = [lk EXCEPT !.pc[p] = "wait_st"]
    /\ UNCHANGED <<tasks, ins, outs, adm, sw, subs, now, dl, enc, an, rt, bc, rq, fs>>

\* the supervisor takes the status lock of its Job
SetStatus_lock(p) ==
    /\ lk.on /\ p \in Supervisors
    /\ lk.pc[p] = "wait_st"
    /\ lk.st[JobOf(p)] = "none"
    /\ lk' = [lk EXCEPT !.st[JobOf(p)] = p, !.pc[p] = "hold"]
    /\ UNCHANGED <<tasks, ins, outs, adm, sw, subs, now, dl, enc, an, rt, bc, rq, fs>>

\* the status is stored and sent, the status lock is released; the
\* supervisor takes no other lock
SetStatus_unlock(p) ==
    /\ lk.on /\ p \in Supervisors
    /\ lk.pc[p] = "hold"
    /\ lk' = [lk EXCEPT !.st[JobOf(p)] = "none", !.pc[p] = "idle"]
    /\ UNCHANGED <<tasks, ins, outs, adm, sw, subs, now, dl, enc, an, rt, bc, rq, fs>>

----------------------------------------------------------------------------
(* RemoteFileManager of voice-shared: files are kept in a bucket under     *)
(* "<identifier>/<kind>".                                                  *)

\* the contents a file may have
FileBytes == {1, 2}
Uploaders == {1, 2}

\* RemoteFileIdentifier::digest(data): thirty bytes of the SHA-256 of the
\* data, a magic byte and a check byte; different data, different identifier
RemoteFileIdentifier_digest(data) == 100 + data

Identifiers == {RemoteFileIdentifier_digest(b) : b \in FileBytes}

\* RemoteFileKind: VideoInput, or a kind derived from a parent file
RemoteFileKind(dir, parent) == [dir |-> dir, parent |-> parent]
RemoteFileKinds ==
    {RemoteFileKind("input", None)}
        \cup {RemoteFileKind("analyse", p) : p \in Identifiers}

\* bucket_path / make_file_path: "<hash>/<kind.as_dir_name()>"
bucket_path(hash, kind) == <<hash, kind.dir>>

\* the bucket of a file manager that has stored nothing, no upload running
Bucket_new ==
    [ on    |-> TRUE,
      files |-> <<>>,          \* bucket_path -> contents
      up    |-> [u \in Uploaders |->
                   [pc |-> "idle", file |-> None, hash |-> None, dir |-> "None",
                    ret |-> "None", found |-> FALSE]],
      puts  |-> 0 ]            \* put requests made so far

\* file_manager(): the client of the bucket
file_manager ==
    /\ ~fs.on
    /\ fs' = Bucket_new
    /\ UNCHANGED <<tasks, ins, outs, adm, sw, subs, now, dl, enc, an, rt, bc, rq, lk>>

\* upload_file, to its first await: the hash is the parent's for a derived
\* kind and the digest of the bytes for VideoInput; get_file(hash, kind):
\* Ok returns the file that exists; anything else (no such file, or the
\* request failed: head_ok) goes on to the write
upload_file_get_file(u, file, kind, head_ok) ==
    /\ fs.on
    /\ fs.up[u].pc = "idle"
    /\ fs.puts < MaxPuts
    /\ LET hash == IF kind.dir = "input" THEN RemoteFileIdentifier_digest(file)
                   ELSE kind.parent
           found == head_ok /\ bucket_path(hash, kind) \in DOMAIN fs.files
       IN  fs' = [fs EXCEPT !.up[u] =
                     [pc |-> IF found THEN "idle" ELSE "write",
                      file |-> file, hash |-> hash, dir |-> kind.dir,
                      ret |-> IF found THEN "Ok" ELSE "None",
                      found |-> found]]
    /\ UNCHANGED <<tasks, ins, outs, adm, sw, subs, now, dl, enc, an, rt, bc, rq, lk>>

\* upload_file, the write: tokio::fs::write / put_object stores the bytes
\* under the path, whatever is there; a failure returns WriteError
upload_file_write(u, ok) ==
    /\ fs.on
    /\ fs.up[u].pc = "write"
    /\ LET x == fs.up[u]
           path == <<x.hash, x.dir>>
       IN  fs' = IF ok
                 THEN [fs EXCEPT !.files = [k \in (DOMAIN @) \cup {path} |->
                                               IF k = path THEN x.file ELSE @[k]],
                                 !.puts = @ + 1,
                                 !.up[u].pc = "idle",
                                 !.up[u].ret = "Ok"]
                 ELSE [fs EXCEPT !.puts = @ + 1,
                                 !.up[u].pc = "idle",
                                 !.up[u].ret = "WriteError"]
    /\ UNCHANGED <<tasks, ins, outs, adm, sw, subs, now, dl, enc, an, rt, bc, rq, lk>>

----------------------------------------------------------------------------
(* State after TaskManager::new(): an empty map; the directories hold what *)
(* an earlier run of the server left behind.                               *)

Init ==
    /\ tasks = <<>>
    /\ ins = {JunkName}
    /\ outs = {JunkName}
    /\ adm = [pc |-> "idle", id |-> None, ret |-> "None"]
    /\ sw = [pc |-> "sleep", todo |-> {}]
    /\ subs = [s \in Subscribers |->
                 [st |-> "idle", job |-> None, pend |-> <<>>, got |-> <<>>,
                  tx_closed |-> FALSE, warned |-> 0, late |-> FALSE]]
    /\ now = 0
    /\ dl = [pc |-> "idle", id |-> None, seen |-> "None", ret |-> "None"]
    /\ enc = EncodingTask_new
    /\ an = [pc |-> "idle"]
    /\ rt = [pc |-> "idle", id |-> None, name |-> <<>>, parsed |-> None]
    /\ bc = [open |-> FALSE, done |-> FALSE]
    /\ rq = [pc |-> "idle"]
    /\ lk = [on |-> FALSE]
    /\ fs = [on |-> FALSE]

Keys == DOMAIN tasks

\* HashMap::insert : a Task already stored under the key is replaced
insert(map, id, t) ==
    [k \in (DOMAIN map) \cup {id} |-> IF k = id THEN t ELSE map[k]]

\* HashMap::retain(|k, _| !keys_to_delete.contains(k))
retain(map, keys_to_delete) ==
    [k \in (DOMAIN map) \ keys_to_delete |-> map[k]]

\* dropping a Task drops its broadcast sender: its receivers see the channel closed
DropSenders(dropped) ==
    [s \in Subscribers |->
        IF subs[s].st = "open" /\ subs[s].job \in dropped
        THEN [subs[s] EXCEPT !.tx_closed = TRUE]
        ELSE subs[s]]

----------------------------------------------------------------------------
(* TaskManager::new_task *)

\* Task::gen_id(), then tokio::fs::write(inputs_dir/id, input_data).await?
new_task_write(id, ok) ==
    /\ adm.pc = "idle"
    /\ IF ok
       THEN /\ ins' = ins \cup {to_string(id)}
            /\ adm' = [pc |-> "written", id |-> id, ret |-> "None"]
       ELSE /\ ins' \in {ins, ins \cup {to_string(id)}}
            /\ adm' = [pc |-> "idle", id |-> None, ret |-> "Err"]
    /\ UNCHANGED <<tasks, outs, sw, subs, now, dl, enc, an, rt, bc, rq, lk, fs>>

\* new_task_insert with the Task stored before the `?` on Task::new is taken:
\* a failed construction leaves an entry behind
new_task_insert_stub(ok) ==
    /\ adm.pc = "written"
    /\ tasks' = insert(tasks, adm.id, Task_new(adm.id))
    /\ subs' = DropSenders({adm.id} \cap Keys)
    /\ adm' = IF ok THEN [pc |-> "idle", id |-> adm.id, ret |-> "Ok"]
                    ELSE [pc |-> "idle", id |-> None, ret |-> "Err"]
    /\ UNCHANGED <<ins, outs, sw, now, dl, enc, an, rt, bc, rq, lk, fs>>

\* new_task_insert returning Ok(task_id) without the insert
new_task_insert_unregistered(ok) ==
    /\ adm.pc = "written"
    /\ adm' = IF ok THEN [pc |-> "idle", id |-> adm.id, ret |-> "Ok"]
                    ELSE [pc |-> "idle", id |-> None, ret |-> "Err"]
    /\ UNCHANGED <<tasks, subs, ins, outs, sw, now, dl, enc, an, rt, bc, rq, lk, fs>>

\* Task::new(..)? ; self.tasks.write().await.insert(task_id, task); Ok(task_id)
new_task_insert(ok) ==
    /\ adm.pc = "written"
    /\ IF ok
       THEN /\ tasks' = insert(tasks, adm.id, Task_new(adm.id))
            /\ subs' = DropSenders({adm.id} \cap Keys)
            /\ adm' = [pc |-> "idle", id |-> adm.id, ret |-> "Ok"]
       ELSE /\ adm' = [pc |-> "idle", id |-> None, ret |-> "Err"]
            /\ UNCHANGED <<tasks, subs, rq, lk, fs>>
    /\ UNCHANGED <<ins, outs, sw, now, dl, enc, an, rt, bc, rq, lk, fs>>

----------------------------------------------------------------------------
(* The supervisory task of a Job (spec.md 4.2, steps 1 to 4) *)

Supervise(j, st, worker) ==
    /\ tasks' = [tasks EXCEPT ![j] = [SetStatus(@, st) EXCEPT !.worker = worker]]
    /\ subs' = Send(j, st)

\* step 1: Analyse fails -> Error(message), terminate
analyse_failed(j) ==
    /\ j \in Keys /\ tasks[j].worker = "Analyse"
    /\ Supervise(j, Error("analysis failed"), "Finished")
    /\ UNCHANGED <<ins, outs, adm, sw, now, dl, enc, an, rt, bc, rq, lk, fs>>

\* analyse_silent that goes on to Encode with the empty list
analyse_silent_encodes(j, silence) ==
    /\ j \in Keys /\ tasks[j].worker = "Analyse"
    /\ to_string(j) \in ins
    /\ LET analysis == VideoAnalysis_new(silence, MediaDuration) IN
       /\ post_encode_playtime(analysis.audible) = 0
       /\ tasks' = [tasks EXCEPT ![j].worker = "Encode",
                                 ![j].analysed = TRUE,
                                 ![j].audible = analysis.audible]
    /\ UNCHANGED <<ins, outs, adm, sw, subs, now, dl, enc, an, rt, bc, rq, lk, fs>>

\* step 2: the audible list is empty -> Error("no audible content")
analyse_silent(j, silence) ==
    /\ j \in Keys /\ tasks[j].worker = "Analyse"
    /\ to_string(j) \in ins
    /\ LET analysis == VideoAnalysis_new(silence, MediaDuration) IN
       /\ post_encode_playtime(analysis.audible) = 0
       /\ tasks' = [tasks EXCEPT ![j] =
                      [SetStatus(@, Error("no audible content"))
                         EXCEPT !.worker = "Finished",
                                !.analysed = TRUE,
                                !.audible = analysis.audible]]
       /\ subs' = Send(j, Error("no audible content"))
    /\ UNCHANGED <<ins, outs, adm, sw, now, dl, enc, an, rt, bc, rq, lk, fs>>

\* steps 1 to 3: Analyse succeeds with something audible, Encode is called
analyse_ok(j, silence) ==
    /\ j \in Keys /\ tasks[j].worker = "Analyse"
    /\ to_string(j) \in ins
    /\ LET analysis == VideoAnalysis_new(silence, MediaDuration) IN
       /\ post_encode_playtime(analysis.audible) # 0
       /\ tasks' = [tasks EXCEPT ![j].worker = "Encode",
                                 ![j].analysed = TRUE,
                                 ![j].audible = analysis.audible]
    /\ UNCHANGED <<ins, outs, adm, sw, subs, now, dl, enc, an, rt, bc, rq, lk, fs>>

\* progress_sample also taken by a supervisor that has already ended the Job:
\* a late sample puts the status back to InProgress
progress_sample_late(j, out, speed) ==
    /\ j \in Keys /\ tasks[j].worker \in {"Encode", "Finished"}
    /\ tasks[j].samples < MaxSamples
    /\ out # None \/ speed # None
    /\ LET st == IF IsTerminal(tasks[j].last_status) THEN InProgress(0, 0)
                 ELSE tasks[j].last_status IN
       /\ tasks' = [tasks EXCEPT ![j] =
                      [SetStatus(@, OnSample(st, out, speed))
                         EXCEPT !.samples = @ + 1]]
       /\ subs' = Send(j, OnSample(st, out, speed))
    /\ outs' = outs \cup {to_string(j)}
    /\ UNCHANGED <<ins, adm, sw, now, dl, enc, an, rt, bc, rq, lk, fs>>

\* step 3: a progress sample arrives; the encoder writes {outputs_dir}/{id}
progress_sample(j, out, speed) ==
    /\ j \in Keys /\ tasks[j].worker = "Encode"
    /\ tasks[j].samples < MaxSamples
    /\ out # None \/ speed # None
    /\ tasks' = [tasks EXCEPT ![j] =
                   [SetStatus(@, OnSample(@.last_status, out, speed))
                      EXCEPT !.samples = @ + 1]]
    /\ subs' = Send(j, OnSample(tasks[j].last_status, out, speed))
    /\ outs' = outs \cup {to_string(j)}
    /\ UNCHANGED <<ins, adm, sw, now, dl, enc, an, rt, bc, rq, lk, fs>>

\* step 4: Done -> Completed{end_time = now}
encode_done(j) ==
    /\ j \in Keys /\ tasks[j].worker = "Encode"
    /\ Supervise(j, Completed(now), "Finished")
    /\ outs' = outs \cup {to_string(j)}
    /\ UNCHANGED <<ins, adm, sw, now, dl, enc, an, rt, bc, rq, lk, fs>>

\* step 4: Error -> Error(message); a partial output file stays
encode_failed(j) ==
    /\ j \in Keys /\ tasks[j].worker = "Encode"
    /\ Supervise(j, Error("encoder failed"), "Finished")
    /\ UNCHANGED <<ins, outs, adm, sw, now, dl, enc, an, rt, bc, rq, lk, fs>>

\* cancel that acts on a running Job only: a Job that ended with Error stays so
cancel_running_only(j) ==
    /\ j \in Keys
    /\ tasks[j].cancels < MaxCancels
    /\ IF tasks[j].cancels = 0 /\ ~IsTerminal(tasks[j].last_status)
       THEN /\ tasks' = [tasks EXCEPT ![j] =
                          [SetStatus(@, Completed(now))
                             EXCEPT !.worker = "Aborted", !.cancels = 1]]
            /\ subs' = Send(j, Completed(now))
       ELSE /\ tasks' = [tasks EXCEPT ![j].cancels = @ + 1]
            /\ UNCHANGED subs
    /\ UNCHANGED <<ins, outs, adm, sw, now, dl, enc, an, rt, bc, rq, lk, fs>>

\* cancel that sets and publishes Completed{end_time = now} on every call
cancel_every_time(j) ==
    /\ j \in Keys
    /\ tasks[j].cancels < MaxCancels
    /\ tasks' = [tasks EXCEPT ![j] =
                   [SetStatus(@, Completed(now))
                      EXCEPT !.worker = IF @ = "Finished" THEN @ ELSE "Aborted",
                             !.cancels = @ + 1]]
    /\ subs' = Send(j, Completed(now))
    /\ UNCHANGED <<ins, outs, adm, sw, now, dl, enc, an, rt, bc, rq, lk, fs>>

\* Task::cancel : abort the supervisor, set Completed{end_time = now}, publish;
\* idempotent: a cancel() after the first one is a no-op (cancels counts the calls)
cancel(j) ==
    /\ j \in Keys
    /\ tasks[j].cancels < MaxCancels
    /\ IF tasks[j].cancels = 0
       THEN /\ tasks' = [tasks EXCEPT ![j] =
                          [SetStatus(@, Completed(now))
                             EXCEPT !.worker = IF @ = "Finished" THEN @ ELSE "Aborted",
                                    !.cancels = 1]]
            /\ subs' = Send(j, Completed(now))
       ELSE /\ tasks' = [tasks EXCEPT ![j].cancels = @ + 1]
            /\ UNCHANGED subs
    /\ UNCHANGED <<ins, outs, adm, sw, now, dl, enc, an, rt, bc, rq, lk, fs>>

----------------------------------------------------------------------------
(* status_ws and ws_handler *)

\* get_task(t), task.subscribe(), upgrade, ping; late records whether the
\* receiver was created after the terminal status of the Task was published
status_ws(s, j, ping_ok) ==
    /\ subs[s].st = "idle"
    /\ j \in Keys
    /\ subs' = [subs EXCEPT ![s] =
                  [@ EXCEPT !.st = IF ping_ok THEN "open" ELSE "failed",
                            !.job = j,
                            !.late = IsTerminal(tasks[j].last_status)]]
    /\ UNCHANGED <<tasks, ins, outs, adm, sw, now, dl, enc, an, rt, bc, rq, lk, fs>>

\* ws_handler_recv without the break after a terminal message
ws_handler_recv_no_break(s) ==
    /\ subs[s].st = "open"
    /\ subs[s].pend # <<>>
    /\ LET msg == Head(subs[s].pend) IN
       subs' = [subs EXCEPT ![s] =
                  [@ EXCEPT !.pend = Tail(@), !.got = Append(@, msg)]]
    /\ UNCHANGED <<tasks, ins, outs, adm, sw, now, dl, enc, an, rt, bc, rq, lk, fs>>

\* one turn of the forwarding loop on Ok(msg): send it, break after a terminal one
ws_handler_recv(s) ==
    /\ subs[s].st = "open"
    /\ subs[s].pend # <<>>
    /\ LET msg == Head(subs[s].pend) IN
       subs' = [subs EXCEPT ![s] =
                  [@ EXCEPT !.pend = Tail(@),
                            !.got = Append(@, msg),
                            !.st = IF IsTerminal(msg[2]) THEN "closed" ELSE "open"]]
    /\ UNCHANGED <<tasks, ins, outs, adm, sw, now, dl, enc, an, rt, bc, rq, lk, fs>>

\* one turn of the forwarding loop on Err(RecvError::Closed): the queue is
\* drained and every sender is gone; the loop logs a warning and goes round again
ws_handler_closed(s) ==
    /\ subs[s].st = "open"
    /\ subs[s].pend = <<>>
    /\ subs[s].tx_closed
    /\ subs' = [subs EXCEPT ![s].warned = (@ + 1) % MaxWarned]
    /\ UNCHANGED <<tasks, ins, outs, adm, sw, now, dl, enc, an, rt, bc, rq, lk, fs>>

----------------------------------------------------------------------------
(* videos : GET /videos/:video *)

\* what get_task(task_id) and last_status() show the handler
videos_seen(task_id) ==
    IF task_id \in Keys THEN tasks[task_id].last_status.type ELSE "None"

\* get_task(task_id), last_status(): NotFound for a registered Task that is
\* InProgress; in every other case the handler goes on to the file
videos_get_task(task_id) ==
    /\ dl.pc = "idle"
    /\ dl' = IF videos_seen(task_id) = "InProgress"
             THEN [pc |-> "idle", id |-> task_id, seen |-> videos_seen(task_id),
                   ret |-> "NotFound"]
             ELSE [pc |-> "open", id |-> task_id, seen |-> videos_seen(task_id),
                   ret |-> "None"]
    /\ UNCHANGED <<tasks, ins, outs, adm, sw, subs, now, enc, an, rt, bc, rq, lk, fs>>

\* a status handler that answers with the status a Task is created with
status_initial(t) ==
    /\ rq' = IF t \in Keys
             THEN [pc |-> "done", t |-> t, code |-> "Ok", body |-> InProgress(0, 0)]
             ELSE [pc |-> "done", t |-> t, code |-> "NotFound"]
    /\ UNCHANGED <<tasks, ins, outs, adm, sw, subs, now, dl, enc, an, rt, bc, lk, fs>>

\* status: get_task(t) under the shared lock of the map, NOT_FOUND if the
\* id is no key, else last_status() of the Task, serialised
status(t) ==
    /\ rq' = IF t \in Keys
             THEN [pc |-> "done", t |-> t, code |-> "Ok", body |-> tasks[t].last_status]
             ELSE [pc |-> "done", t |-> t, code |-> "NotFound"]
    /\ UNCHANGED <<tasks, ins, outs, adm, sw, subs, now, dl, enc, an, rt, bc, lk, fs>>

\* tokio::fs::File::open(outputs_dir/task_id): NotFound if it fails, else the stream
videos_open ==
    /\ dl.pc = "open"
    /\ dl' = [dl EXCEPT !.pc = "idle",
                        !.ret = IF to_string(dl.id) \in outs THEN "Ok" ELSE "NotFound"]
    /\ UNCHANGED <<tasks, ins, outs, adm, sw, subs, now, enc, an, rt, bc, rq, lk, fs>>

----------------------------------------------------------------------------
(* The task cleaner: cleanup_tasks, then cleanup_task_files, every minute *)

\* to_delete with <= for <: a Task is deleted one minute early
to_delete_at_deadline(t, current_time) ==
    /\ t.last_status.type = "Completed"
    /\ t.last_status.end_time + DeleteFilesAfterMinutes <= current_time

\* the test of cleanup_tasks on one Task at current_time
to_delete(t, current_time) ==
    /\ t.last_status.type = "Completed"
    /\ t.last_status.end_time + DeleteFilesAfterMinutes < current_time

cleanup_tasks ==
    /\ sw.pc = "sleep"
    /\ LET keys_to_delete == {k \in Keys : to_delete(tasks[k], now)} IN
       /\ tasks' = retain(tasks, keys_to_delete)
       /\ subs' = DropSenders(keys_to_delete)
    /\ sw' = [pc |-> "outputs", todo |-> outs]
    /\ UNCHANGED <<ins, outs, adm, now, dl, enc, an, rt, bc, rq, lk, fs>>

\* what one entry of a directory becomes: removed iff its name is the id of no Task
sweep_entry(dir, name) ==
    IF parse_TaskId(name) # ParseError /\ parse_TaskId(name) \notin Keys
    THEN dir \ {name}
    ELSE dir

\* cleanup_task_files, one entry of outputs_dir
cleanup_output_entry(name) ==
    /\ sw.pc = "outputs"
    /\ name \in sw.todo
    /\ outs' = sweep_entry(outs, name)
    /\ sw' = [sw EXCEPT !.todo = @ \ {name}]
    /\ UNCHANGED <<tasks, ins, adm, subs, now, dl, enc, an, rt, bc, rq, lk, fs>>

\* cleanup_task_files, outputs_dir exhausted: read inputs_dir
cleanup_inputs_begin ==
    /\ sw.pc = "outputs"
    /\ sw.todo = {}
    /\ sw' = [pc |-> "inputs", todo |-> ins]
    /\ UNCHANGED <<tasks, ins, outs, adm, subs, now, dl, enc, an, rt, bc, rq, lk, fs>>

\* cleanup_task_files, one entry of inputs_dir
cleanup_input_entry(name) ==
    /\ sw.pc = "inputs"
    /\ name \in sw.todo
    /\ ins' = sweep_entry(ins, name)
    /\ sw' = [sw EXCEPT !.todo = @ \ {name}]
    /\ UNCHANGED <<tasks, outs, adm, subs, now, dl, enc, an, rt, bc, rq, lk, fs>>

\* cleanup_task_files returns: the cleaner sleeps again
cleanup_done ==
    /\ sw.pc = "inputs"
    /\ sw.todo = {}
    /\ sw' = [pc |-> "sleep", todo |-> {}]
    /\ UNCHANGED <<tasks, ins, outs, adm, subs, now, dl, enc, an, rt, bc, rq, lk, fs>>

----------------------------------------------------------------------------

Tick ==
    /\ now < MaxTime
    /\ now' = now + 1
    /\ UNCHANGED <<tasks, ins, outs, adm, sw, subs, dl, enc, an, rt, bc, rq, lk, fs>>

FileNames == {to_string(j) : j \in TaskIds} \cup {JunkName}

(* One id, so that every admission after the first collides; its Job is    *)
(* followed through progress samples and a websocket subscriber.           *)
Next ==
    \/ \E id \in SoloIds, ok \in BOOLEAN : new_task_write(id, ok)
    \/ \E ok \in BOOLEAN : new_task_insert(ok)
    \/ \E j \in SoloIds : analyse_failed(j)
    \/ \E j \in SoloIds, silence \in JobSilences : analyse_silent(j, silence)
    \/ \E j \in SoloIds, silence \in JobSilences : analyse_ok(j, silence)
    \/ \E j \in SoloIds, x \in Samples : progress_sample(j, x[1], x[2])
    \/ \E j \in SoloIds : encode_done(j)
    \/ \E j \in SoloIds : encode_failed(j)
    \/ \E j \in SoloIds : cancel(j)
    \/ \E s \in Subscribers, j \in SoloIds, ok \in BOOLEAN : status_ws(s, j, ok)
    \/ \E s \in Subscribers : ws_handler_recv(s)
    \/ cleanup_tasks
    \/ \E name \in FileNames : cleanup_output_entry(name)
    \/ cleanup_inputs_begin
    \/ \E name \in FileNames : cleanup_input_entry(name)
    \/ cleanup_done
    \/ Tick

Spec == Init /\ [][Next]_vars

(* Two ids, so that one sweep meets several Jobs; no websocket is open.    *)
NextRegistry ==
    \/ \E id \in TaskIds, ok \in BOOLEAN : new_task_write(id, ok)
    \/ \E ok \in BOOLEAN : new_task_insert(ok)
    \/ \E j \in TaskIds : analyse_failed(j)
    \/ \E j \in TaskIds, silence \in JobSilences : analyse_ok(j, silence)
    \/ \E j \in TaskIds, x \in Samples : progress_sample(j, x[1], x[2])
    \/ \E j \in TaskIds : encode_done(j)
    \/ \E j \in TaskIds : encode_failed(j)
    \/ \E j \in TaskIds : j \in Keys /\ tasks[j].cancels = 0 /\ cancel(j)
    \/ cleanup_tasks
    \/ \E name \in FileNames : cleanup_output_entry(name)
    \/ cleanup_inputs_begin
    \/ \E name \in FileNames : cleanup_input_entry(name)
    \/ cleanup_done
    \/ Tick

SpecRegistry == Init /\ [][NextRegistry]_vars

(* One id and no websocket: the Job, its output file and the sweeper, with  *)
(* downloads requested at any moment.                                      *)
NextFetch ==
    \/ \E id \in SoloIds, ok \in BOOLEAN : new_task_write(id, ok)
    \/ \E ok \in BOOLEAN : new_task_insert(ok)
    \/ \E j \in SoloIds : analyse_failed(j)
    \/ \E j \in SoloIds, silence \in JobSilences : analyse_ok(j, silence)
    \/ \E j \in SoloIds, x \in Samples : progress_sample(j, x[1], x[2])
    \/ \E j \in SoloIds : encode_done(j)
    \/ \E j \in SoloIds : encode_failed(j)
    \/ \E task_id \in SoloIds : videos_get_task(task_id)
    \/ videos_open
    \/ cleanup_tasks
    \/ \E name \in FileNames : cleanup_output_entry(name)
    \/ cleanup_inputs_begin
    \/ \E name \in FileNames : cleanup_input_entry(name)
    \/ cleanup_done
    \/ Tick

SpecFetch == Init /\ [][NextFetch]_vars

(* The websocket loop with everything that feeds or starves it, every task *)
(* of the runtime being scheduled again and again: the admission in        *)
(* flight, the supervisor of a Job, the forwarding loop of a connection,   *)
(* the cleaner and the clock. Task::gen_id() draws ids that are not in use. *)
NextLive ==
    \/ \E id \in SoloIds \ Keys : new_task_write(id, TRUE)
    \/ new_task_insert(TRUE)
    \/ \E j \in SoloIds : analyse_failed(j)
    \/ \E j \in SoloIds, silence \in JobSilences : analyse_ok(j, silence)
    \/ \E j \in SoloIds, x \in Samples : progress_sample(j, x[1], x[2])
    \/ \E j \in SoloIds : encode_done(j)
    \/ \E j \in SoloIds : encode_failed(j)
    \/ \E s \in Subscribers, j \in SoloIds, ok \in BOOLEAN : status_ws(s, j, ok)
    \/ \E s \in Subscribers : ws_handler_recv(s)
    \/ \E s \in Subscribers : ws_handler_closed(s)
    \/ cleanup_tasks
    \/ \E name \in FileNames : cleanup_output_entry(name)
    \/ cleanup_inputs_begin
    \/ \E name \in FileNames : cleanup_input_entry(name)
    \/ cleanup_done
    \/ Tick

SupervisorStep ==
    \E j \in SoloIds :
        \/ analyse_failed(j)
        \/ \E silence \in JobSilences : analyse_ok(j, silence)
        \/ encode_done(j)
        \/ encode_failed(j)

CleanerTurn ==
    \/ cleanup_tasks
    \/ \E name \in FileNames : cleanup_output_entry(name)
    \/ cleanup_inputs_begin
    \/ \E name \in FileNames : cleanup_input_entry(name)
    \/ cleanup_done

SpecLive ==
    /\ Init /\ [][NextLive]_vars
    /\ WF_vars(new_task_insert(TRUE))
    /\ WF_vars(SupervisorStep)
    /\ \A s \in Subscribers :
          WF_vars(ws_handler_recv(s)) /\ WF_vars(ws_handler_closed(s))
    /\ WF_vars(CleanerTurn)
    /\ WF_vars(Tick)

(* The stage chain alone: one EncodingTask polled by its owner while the    *)
(* worker threads of its stages run.                                       *)
NextStages ==
    \/ \E io_ok \in BOOLEAN : EncodingTask_poll(io_ok)
    \/ \E frames \in 1..MaxFrames, ok \in BOOLEAN : get_frame_length(frames, ok)
    \/ \E frame_n \in 0..MaxFrames : read_or_terminate(frame_n)
    \/ \E periods \in 0..MaxPeriods, ok \in BOOLEAN : detect_silence(periods, ok)
    \/ \E ok \in BOOLEAN : split_fragments(ok)
    \/ \E ok \in BOOLEAN : thread_exit(ok)
    \/ FFMpegThreadFuture_abort
    \/ thread_killed
    \/ orphan_exits

SpecStages == Init /\ [][NextStages]_vars

\* the steps of the worker thread of the stage, each one the exit of the
\* child the thread waits for or a look at should_stop
ThreadStep ==
    \/ \E frames \in 1..MaxFrames, ok \in BOOLEAN : get_frame_length(frames, ok)
    \/ \E periods \in 0..MaxPeriods, ok \in BOOLEAN : detect_silence(periods, ok)
    \/ \E ok \in BOOLEAN : split_fragments(ok)
    \/ \E ok \in BOOLEAN : thread_exit(ok)
    \/ thread_killed

(* The stage chain with its owner polling again and again and every child  *)
(* a thread waits for coming to its end.                                   *)
SpecStagesLive ==
    /\ Init /\ [][NextStages]_vars
    /\ WF_vars(\E io_ok \in BOOLEAN : EncodingTask_poll(io_ok))
    /\ WF_vars(ThreadStep)

(* One analyze_silence call, on any output of at most MaxLines lines.      *)
NextAnalyse ==
    \/ \E io_ok \in BOOLEAN, exit_ok \in BOOLEAN, duration \in (1..MaxDuration) \cup {None} :
          analyze_silence_output(io_ok, exit_ok, duration)
    \/ \E io_ok \in BOOLEAN, exit_ok \in BOOLEAN : analyze_silence_status(io_ok, exit_ok)
    \/ \E line \in Lines : analyze_silence_line(line)
    \/ analyze_silence_return

SpecAnalyse == Init /\ [][NextAnalyse]_vars

(* Every TaskId through its file name and back.                            *)
NextRoundTrip ==
    \/ \E id \in 0..MaxId : Task_gen_id(id)
    \/ new_task_to_string
    \/ cleanup_parse

SpecRoundTrip == Init /\ [][NextRoundTrip]_vars

(* The status requests of clients, for the Job and for an id that is never *)
(* a key, while the Job is admitted, supervised, cancelled and subscribed   *)
(* to.                                                                     *)
NextStatus ==
    \/ \E id \in SoloIds, ok \in BOOLEAN : new_task_write(id, ok)
    \/ \E ok \in BOOLEAN : new_task_insert(ok)
    \/ \E j \in SoloIds : analyse_failed(j)
    \/ \E j \in SoloIds, silence \in JobSilences : analyse_ok(j, silence)
    \/ \E j \in SoloIds, x \in Samples : progress_sample(j, x[1], x[2])
    \/ \E j \in SoloIds : encode_done(j)
    \/ \E j \in SoloIds : encode_failed(j)
    \/ \E j \in SoloIds : j \in Keys /\ tasks[j].cancels = 0 /\ cancel(j)
    \/ \E s \in Subscribers, j \in SoloIds : status_ws(s, j, TRUE)
    \/ \E s \in Subscribers : ws_handler_recv(s)
    \/ \E t \in TaskIds : status(t)

SpecStatus == Init /\ [][NextStatus]_vars

(* The tasks that take the locks. A task that can take a step is          *)
(* scheduled; a status lock that is free again and again is given to each  *)
(* of its waiters.                                                         *)
NextLocks ==
    \/ TaskManager_new
    \/ \E p \in Writers : tasks_write(p)
    \/ cleanup_tasks_locked
    \/ \E j \in LockJobs : cleanup_tasks_last_status(j)
    \/ \E d \in SUBSET LockJobs : cleanup_tasks_retain(d)
    \/ \E id \in LockJobs : new_task_locked(id)
    \/ \E p \in Readers, id \in LockJobs : get_task_read(p, id)
    \/ \E p \in Readers : get_task_locked(p)
    \/ \E p \in Readers : handler_last_status(p)
    \/ \E p \in Supervisors : SetStatus_request(p)
    \/ \E p \in Supervisors : SetStatus_lock(p)
    \/ \E p \in Supervisors : SetStatus_unlock(p)

SpecLocks ==
    /\ Init /\ [][NextLocks]_vars
    /\ WF_vars(cleanup_tasks_locked)
    /\ SF_vars(\E j \in LockJobs : cleanup_tasks_last_status(j))
    /\ WF_vars(\E d \in SUBSET LockJobs : cleanup_tasks_retain(d))
    /\ WF_vars(\E id \in LockJobs : new_task_locked(id))
    /\ \A p \in Readers : WF_vars(get_task_locked(p)) /\ SF_vars(handler_last_status(p))
    /\ \A p \in Supervisors : WF_vars(SetStatus_lock(p)) /\ WF_vars(SetStatus_unlock(p))

(* Uploads to one bucket by handlers that run at the same time.           *)
NextUpload ==
    \/ file_manager
    \/ \E u \in Uploaders, file \in FileBytes, kind \in RemoteFileKinds, head_ok \in BOOLEAN :
          upload_file_get_file(u, file, kind, head_ok)
    \/ \E u \in Uploaders, ok \in BOOLEAN : upload_file_write(u, ok)

SpecUpload == Init /\ [][NextUpload]_vars

(* A supervisor publishing on a channel whose receivers run when they      *)
(* like: only the supervisor is scheduled again and again.                 *)
\* the terminal statuses a supervisor ends with
PublishedStatuses ==
    {Completed(0), Error("encoder failed")}

SupervisorPublishes ==
    \/ Task_new_channel
    \/ \E x \in BroadcastSamples : encoder_emits(x[1], x[2])
    \/ supervisor_on_sample
    \/ \E st \in PublishedStatuses : supervisor_on_exit(st)

NextBroadcast ==
    \/ SupervisorPublishes
    \/ \E r \in Receivers : ws_handler_turn(r)

SpecBroadcast == Init /\ [][NextBroadcast]_vars /\ WF_vars(SupervisorPublishes)

(* The same Job with a client that may cancel it and subscribers whose     *)
(* forwarding loops are scheduled, as spawned tasks are.                    *)
NextSubscribers ==
    \/ NextBroadcast
    \/ cancel_publish

SpecSubscribers ==
    /\ Init /\ [][NextSubscribers]_vars
    /\ WF_vars(SupervisorPublishes)
    /\ \A r \in Receivers : WF_vars(ws_handler_turn(r))

----------------------------------------------------------------------------
(* Vocabulary of the properties *)

\* the Task stored under j is the same object before and after the step
\* (a Task constructed by the step has sent nothing and counts no cancel)
SameJob(j) ==
    /\ j \in Keys /\ j \in DOMAIN tasks'
    /\ tasks'[j].sent >= tasks[j].sent
    /\ tasks'[j].cancels >= tasks[j].cancels

\* the step is a cancel() call on the Task stored under j
CancelCall(j) == SameJob(j) /\ tasks'[j].cancels = tasks[j].cancels + 1

\* a terminal message has been sent on the channel of the Task stored under j
TerminalSent(j) ==
    /\ tasks[j].last_sent # <<>>
    /\ IsTerminal(tasks[j].last_sent[2])

Terminals(q) == {i \in 1..Len(q) : IsTerminal(q[i][2])}

\* the step ends a new_task call
NewTaskReturns ==
    /\ adm'.pc = "idle"
    /\ adm.pc = "written" \/ adm' # adm

\* the step is one of the task cleaner's
CleanerStep == sw' # sw

Expired(t, current_time) ==
    /\ IsTerminal(t.last_status)
    /\ t.completed_at + DeleteFilesAfterMinutes < current_time

----------------------------------------------------------------------------
(* C1 *)

\* C1 as claimed: once the status of a Job is Error or Completed, no step
\* (supervisor, progress sample, subscribe, last_status, cancel) changes it
\* while the Job is registered.
C1_TerminalStatusNeverChanges ==
    [][\A j \in TaskIds :
          (SameJob(j) /\ IsTerminal(tasks[j].last_status))
              => tasks'[j].last_status = tasks[j].last_status]_vars

\* C1 amended: a terminal status never becomes InProgress again and is
\* changed by nothing but the first cancel() on the Job, which replaces it
\* by Completed{end_time = time of the call}.
C1_TerminalAbsorbing ==
    [][\A j \in TaskIds :
          (SameJob(j) /\ IsTerminal(tasks[j].last_status))
              => \/ tasks'[j].last_status = tasks[j].last_status
                 \/ /\ CancelCall(j) /\ tasks[j].cancels = 0
                    /\ tasks'[j].last_status = Completed(now)]_vars

\* a Job whose supervisor ended it with Error is still Error after the clock
\* moved
C1_Witness ==
    \E j \in Keys :
        /\ tasks[j].last_status.type = "Error"
        /\ tasks[j].completed_at < now
        /\ tasks[j].worker = "Finished"

----------------------------------------------------------------------------
(* C2 *)

\* C2 as claimed: nothing is published on the channel of a Job after a
\* terminal message.
C2_NothingSentAfterTerminal ==
    [][\A j \in TaskIds :
          (SameJob(j) /\ TerminalSent(j)) => tasks'[j].sent = tasks[j].sent]_vars

\* C2 amended: what a subscriber's forwarding loop has received holds at
\* most one terminal message, which is then its last element and ends the
\* loop; a loop that ended received exactly one; and after a terminal message
\* the channel carries nothing but the Completed of the first cancel().
C2_OneTerminalLast ==
    /\ [](\A s \in Subscribers :
            /\ Cardinality(Terminals(subs[s].got)) <= 1
            /\ Terminals(subs[s].got) \subseteq {Len(subs[s].got)}
            /\ (subs[s].st = "closed") = (Terminals(subs[s].got) # {}))
    /\ [][\A j \in TaskIds :
            (SameJob(j) /\ TerminalSent(j) /\ tasks'[j].sent # tasks[j].sent)
                => /\ CancelCall(j) /\ tasks[j].cancels = 0
                   /\ tasks'[j].sent = tasks[j].sent + 1
                   /\ tasks'[j].last_sent = <<j, Completed(now)>>]_vars

\* a subscriber attached while the Job was in progress saw a progress
\* message and then the terminal one, and a cancel() followed
C2_Witness ==
    \E s \in Subscribers :
        /\ subs[s].st = "closed"
        /\ Len(subs[s].got) = 2
        /\ subs[s].pend # <<>>

----------------------------------------------------------------------------
(* C3 *)

\* C3 as claimed: every cancel() call, whatever the state of the Job, leaves
\* last_status = Completed{end_time = time of the call} and publishes it.
C3_EveryCancelCompletesNow ==
    [][\A j \in TaskIds :
          CancelCall(j)
              => /\ tasks'[j].last_status = Completed(now)
                 /\ tasks'[j].last_sent = <<j, Completed(now)>>
                 /\ tasks'[j].sent = tasks[j].sent + 1]_vars

\* C3 amended: the first cancel() on a Job, in any state (InProgress, Error
\* or Completed), aborts the supervisor, leaves last_status =
\* Completed{end_time = time of the call} and publishes that status to every
\* attached subscriber; after any cancel() the Job is Completed and its
\* supervisor is not running.
C3_FirstCancelCompletesNow ==
    [][\A j \in TaskIds :
          CancelCall(j)
              => /\ tasks'[j].last_status.type = "Completed"
                 /\ tasks'[j].worker \in {"Aborted", "Finished"}
                 /\ tasks[j].cancels = 0
                      => /\ tasks'[j].last_status = Completed(now)
                         /\ tasks'[j].last_sent = <<j, Completed(now)>>
                         /\ tasks'[j].sent = tasks[j].sent + 1
                         /\ \A s \in Subscribers :
                               Attached(s, j) =>
                                  subs'[s].pend =
                                     Append(subs[s].pend, <<j, Completed(now)>>)]_vars

\* a Job that ended with Error was cancelled later: it is Completed at the
\* time of the call and an attached subscriber has that message
C3_Witness ==
    \E j \in Keys, s \in Subscribers :
        /\ tasks[j].cancels = 1
        /\ tasks[j].completed_at < tasks[j].last_status.end_time
        /\ subs[s].job = j /\ subs[s].got # <<>>
        /\ subs[s].got[Len(subs[s].got)] = <<j, tasks[j].last_status>>

----------------------------------------------------------------------------
(* C4 *)

\* C4: a cancel() after the first one on the same Job publishes nothing and
\* leaves the Job (last_status with its end_time, completed_at, supervisor)
\* and every subscriber as they were.
C4_CancelIdempotent ==
    [][\A j \in TaskIds :
          (CancelCall(j) /\ tasks[j].cancels >= 1)
              => /\ tasks'[j] = [tasks[j] EXCEPT !.cancels = @ + 1]
                 /\ subs' = subs]_vars

\* a Job cancelled twice, the clock having moved since the first cancel()
C4_Witness ==
    \E j \in Keys :
        /\ tasks[j].cancels = 2
        /\ tasks[j].last_status.type = "Completed"
        /\ tasks[j].last_status.end_time < now

----------------------------------------------------------------------------
(* C5 *)

\* the step is cleanup_tasks, the first half of a sweep
CleanupTasksStep == sw.pc = "sleep" /\ sw'.pc = "outputs"

\* the step ends a sweep
SweepCompletes == sw.pc = "inputs" /\ sw'.pc = "sleep"

\* C5: after cleanup_tasks ran at time now, no Job that was terminal
\* (Completed or Error) with completed_at + retention < now is in the map.
C5_SweepRemovesExpired ==
    [][CleanupTasksStep
          => \A j \in Keys :
                Expired(tasks[j], now) => j \notin DOMAIN tasks']_vars

----------------------------------------------------------------------------
(* C6 *)

SameFiles(j) ==
    /\ (to_string(j) \in ins') = (to_string(j) \in ins)
    /\ (to_string(j) \in outs') = (to_string(j) \in outs)

----------------------------------------------------------------------------
(* C7 *)

NoOrphan(dir, map) ==
    \A name \in dir :
        parse_TaskId(name) # ParseError => parse_TaskId(name) \in DOMAIN map

\* C7: a sweep leaves the files with unparseable names alone, and when it
\* completes every file of inputs_dir and outputs_dir whose name parses as a
\* JobId has its Job in the map.
C7_SweepLeavesNoOrphan ==
    [][/\ CleanerStep
          => /\ (JunkName \in ins') = (JunkName \in ins)
             /\ (JunkName \in outs') = (JunkName \in outs)
       /\ SweepCompletes
          => /\ NoOrphan(ins', tasks')
             /\ NoOrphan(outs', tasks')]_vars

----------------------------------------------------------------------------
(* C8 *)

\* C8: a new_task whose generated id is already a key of the map fails and
\* leaves the Job registered under that id, and its subscribers, unchanged.
C8_AdmissionNeverReplaces ==
    [][(adm.pc = "written" /\ adm.id \in Keys /\ adm'.pc = "idle")
          => /\ adm'.ret = "Err"
             /\ tasks' = tasks
             /\ subs' = subs]_vars

----------------------------------------------------------------------------
(* C9 *)

\* C9: a new_task call that does not return Ok(id) with a Job constructed
\* and registered under id returns Err, and the map is what it was.
C9_FailedAdmissionCreatesNoJob ==
    [][NewTaskReturns
          => IF adm'.ret = "Ok"
             THEN /\ adm'.id \in DOMAIN tasks'
                  /\ tasks'[adm'.id] = Task_new(adm'.id)
             ELSE /\ adm'.ret = "Err"
                  /\ tasks' = tasks]_vars

\* new_task has returned an error after its input file was written: no Job
\* is registered for the file
C9_Witness ==
    /\ adm.pc = "idle" /\ adm.ret = "Err"
    /\ \E id \in TaskIds : to_string(id) \in ins /\ id \notin Keys

----------------------------------------------------------------------------
(* C10 *)

----------------------------------------------------------------------------
(* C12 *)

\* the step is the response of videos to the request for dl'.id
VideosReturns == dl'.pc = "idle" /\ dl' # dl

\* C12: videos answers NotFound for a Job it finds InProgress and for a Job
\* it finds with status Error, whether or not a file named after the Job is
\* in outputs_dir; the byte stream is the answer only for a Job found
\* Completed.
C12_StreamOnlyForCompleted ==
    [][VideosReturns
          => /\ dl'.seen \in {"InProgress", "Error"} => dl'.ret = "NotFound"
             /\ (dl'.ret = "Ok" /\ dl'.seen # "None") => dl'.seen = "Completed"]_vars

----------------------------------------------------------------------------
(* C13 *)

\* C13: videos answers NotFound for an id that is not a key of the map when
\* the handler looks it up nor when it answers (never admitted, or removed
\* by the sweeper), whether or not a file with that name is in outputs_dir.
C13_UnknownIdNotFound ==
    [][(VideosReturns /\ dl'.seen = "None" /\ dl'.id \notin Keys)
          => dl'.ret = "NotFound"]_vars

----------------------------------------------------------------------------
(* C14 *)

\* C14: once the Job a websocket subscribed to is terminal, the forwarding
\* loop of that websocket eventually stops, whether the subscriber attached
\* before or after the terminal transition; and it forwards nothing after a
\* terminal status.
C14_LoopStopsAfterTerminal ==
    /\ \A s \in Subscribers :
          (\E j \in Keys :
              Attached(s, j) /\ IsTerminal(tasks[j].last_status))
                 ~> (subs[s].st = "closed")
    /\ [](\A s \in Subscribers :
            Terminals(subs[s].got) \subseteq {Len(subs[s].got)})

----------------------------------------------------------------------------
(* C15 *)

\* what the receiver of subscriber s has been given since subscribe()
Received(s) == subs[s].got \o subs[s].pend

\* C15 as claimed: a subscriber that subscribed after the terminal status of
\* its Job was published is given no message by the channel, and last_status()
\* read after the subscribe() is terminal.
C15_LateSubscriberGetsNothing ==
    \A s \in Subscribers, j \in Keys :
        (Attached(s, j) /\ subs[s].late)
            => /\ Received(s) = <<>>
               /\ IsTerminal(tasks[j].last_status)

\* C15 amended: such a subscriber is given no message by the channel except
\* the Completed of the first cancel() called on the Job after it subscribed,
\* and last_status() read at any time after the subscribe() is a terminal
\* value: the one published last.
C15_LateSubscriberSeesTerminal ==
    \A s \in Subscribers, j \in Keys :
        (Attached(s, j) /\ subs[s].late)
            => /\ IsTerminal(tasks[j].last_status)
               /\ tasks[j].last_sent = <<j, tasks[j].last_status>>
               /\ \/ Received(s) = <<>>
                  \/ /\ Received(s) = <<tasks[j].last_sent>>
                     /\ tasks[j].cancels >= 1
                     /\ tasks[j].last_status.type = "Completed"

\* a subscriber attached to a Job that had ended with Error some time ago:
\* its queue is empty and the status it can read is that Error
C15_Witness ==
    \E s \in Subscribers, j \in Keys :
        /\ Attached(s, j) /\ subs[s].late
        /\ Received(s) = <<>>
        /\ tasks[j].last_status.type = "Error"
        /\ tasks[j].completed_at < now

----------------------------------------------------------------------------
(* C16 *)

\* C16: the last_status of a Job is the message published last on its
\* channel, or InProgress{0, 0} if nothing was published yet; and a step of
\* the supervisor or of cancel that changes the status publishes exactly one
\* message, the new status, which every attached receiver is given once.
C16_LastStatusIsLastPublished ==
    /\ [](\A j \in Keys :
            IF tasks[j].sent = 0
            THEN tasks[j].last_sent = <<>> /\ tasks[j].last_status = InProgress(0, 0)
            ELSE tasks[j].last_sent = <<j, tasks[j].last_status>>)
    /\ [][\A j \in TaskIds :
            (SameJob(j) /\ tasks'[j].last_status # tasks[j].last_status)
                => /\ tasks'[j].sent = tasks[j].sent + 1
                   /\ \A s \in Subscribers :
                         Attached(s, j) =>
                            subs'[s].pend =
                               Append(subs[s].pend, <<j, tasks'[j].last_status>>)]_vars

\* a Job that published a progress status and then a terminal one, both of
\* which reached a subscriber
C16_Witness ==
    \E j \in Keys, s \in Subscribers :
        /\ tasks[j].sent = 2
        /\ IsTerminal(tasks[j].last_status)
        /\ Attached(s, j)
        /\ Len(Received(s)) = 2
        /\ Received(s)[2] = <<j, tasks[j].last_status>>

----------------------------------------------------------------------------
(* C19 *)

\* C19: completed_at of a Job is unset exactly while the Job is InProgress;
\* the step that makes the Job terminal sets it to the time of that step; and
\* once set no step changes it, be it a second terminal event, a cancel, a
\* websocket subscribing or a step of the sweeper.
C19_CompletedAtSetOnce ==
    /\ [](\A j \in Keys :
            (tasks[j].completed_at = None) = ~IsTerminal(tasks[j].last_status))
    /\ [][\A j \in TaskIds :
            SameJob(j)
                => IF tasks[j].completed_at = None
                   THEN tasks'[j].completed_at \in {None, now}
                   ELSE tasks'[j].completed_at = tasks[j].completed_at]_vars

\* a Job that ended at time 0 and was cancelled at time 1 is looked at by the
\* sweeper at time 2: its completed_at is still 0
C19_Witness ==
    \E j \in Keys :
        /\ tasks[j].completed_at = 0
        /\ tasks[j].last_status = Completed(1)
        /\ now = 2
        /\ sw.pc = "outputs"

----------------------------------------------------------------------------
(* C20 *)

----------------------------------------------------------------------------
(* C11 *)

\* C11: a failure inside the task never leaves it as a panic, and a child
\* that failed is reported to the supervisor, which makes it the status of
\* the task: poll() never panics, and the status cell of a worker thread
\* whose child failed does not go on reading Running.
C11_FailuresBecomeStatus ==
    /\ enc.poller = "ok"
    /\ enc.thread = "Panicked" => FFMpegThreadFuture_poll # "Running"

----------------------------------------------------------------------------
(* C17 *)

\* p <= q for two progress values
Leq(p, q) == p.d > 0 /\ q.d > 0 /\ p.n * q.d <= q.n * p.d

\* C17: while a stage runs, the progress it shows never decreases, whatever
\* frame numbers the encoder prints and in whatever order.
C17_ProgressNeverDecreases ==
    [][enc'.stage = enc.stage => Leq(enc.progress, enc'.progress)]_vars

----------------------------------------------------------------------------
(* C18 *)

\* C18: the progress shown is always a value of [0, 1].
C18_ProgressInUnitInterval ==
    /\ enc.progress.d > 0
    /\ 0 <= enc.progress.n
    /\ enc.progress.n <= enc.progress.d

----------------------------------------------------------------------------
(* C21 *)

\* the ranges of a list lie in [0, duration], none is empty, and each ends
\* before the next one starts
AscendingIn(list, duration) ==
    /\ \A i \in 1..Len(list) :
          0 <= list[i].start /\ list[i].start < list[i].end /\ list[i].end <= duration
    /\ \A i \in 1..(Len(list) - 1) : list[i].end <= list[i + 1].start

\* second t of the file lies in a range of the list
Covers(list, t) == \E i \in 1..Len(list) : list[i].start <= t /\ t < list[i].end

\* analyze_silence returned Ok for an output that silencedetect can print
AnalysedSilencedetect ==
    an.pc = "done" /\ an.ret = "Ok" /\ an.wf /\ an.parser.state # "Duration"

\* C21: the audible list returned for the silent ranges silencedetect
\* printed is ascending without overlap or repetition, inside [0, duration]
\* and free of empty ranges, and it covers exactly the seconds of the file
\* that no silent range covers.
C21_AudibleIsComplement ==
    AnalysedSilencedetect =>
        /\ AscendingIn(an.analysis.audible, an.duration)
        /\ \A t \in 0..(an.duration - 1) :
              Covers(an.analysis.audible, t) <=> ~Covers(an.analysis.inaudible, t)

----------------------------------------------------------------------------
(* C22 *)

\* analyze_silence read the whole output of a successful run and not one
\* line of it started with "lavfi"
ReturnedWithoutSilence ==
    /\ an.pc = "done" /\ an.exit2 = "success"
    /\ an.ret \in {"Ok", "Err(FFmpeg)"}
    /\ an.lavfi = 0

\* C22: an output without any silent range makes analyze_silence return Ok
\* with the single audible range [0, duration].
C22_NoSilenceIsAllAudible ==
    ReturnedWithoutSilence =>
        /\ an.ret = "Ok"
        /\ an.analysis.audible = <<Range(0, an.duration)>>

----------------------------------------------------------------------------
(* C23 *)

\* analyze_silence read the whole output of a successful run, the output is
\* one silencedetect prints, and it ended after a silence_start
ReturnedInSilence ==
    /\ an.pc = "done" /\ an.exit2 = "success"
    /\ an.ret \in {"Ok", "Err(FFmpeg)"}
    /\ an.wf /\ an.parser.state = "End"

Last(list) == list[Len(list)]

\* C23: an output that ends after a silence_start makes analyze_silence
\* return Ok with the last silent range [start, duration] and, unless the
\* file starts with that silence, a last audible range that ends at start;
\* also when no other silence precedes it.
C23_OpenSilenceClosedAtDuration ==
    ReturnedInSilence =>
        /\ an.ret = "Ok"
        /\ Last(an.analysis.inaudible) = Range(an.parser.start, an.duration)
        /\ an.parser.start > 0 =>
              /\ an.analysis.audible # <<>>
              /\ Last(an.analysis.audible).end = an.parser.start

----------------------------------------------------------------------------
(* C24 *)

\* the thread that spawned the children of the stage has ended on an abort
\* or on a panic: the scope that owned the Child handles is gone
ScopeDropped == enc.thread \in {"Aborted", "Panicked"}

\* C24: after an abort or a panic of the thread that owns them, the ffmpeg
\* children of the stage are terminated: none of them keeps running.
C24_NoOrphanEncoder == ScopeDropped ~> (enc.children = 0)

----------------------------------------------------------------------------
(* C25 *)

\* C25: whatever the receivers of the channel do, a supervisor that is
\* scheduled publishes each of its statuses and comes to publish the
\* terminal one; a full ring with receivers that read slowly or never does
\* not hold it back.
C25_PublishNeverBlocks == <>bc.done

\* the terminal status is published, more messages were sent than the ring
\* holds, one receiver has read nothing and another was told it lagged
C25_Witness ==
    /\ bc.done
    /\ bc.sent > BroadcastCapacity
    /\ \E r \in Receivers : bc.rx[r].st = "open" /\ bc.rx[r].next = 1
    /\ \E r \in Receivers : bc.rx[r].lagged > 0

----------------------------------------------------------------------------
(* C26 *)

\* C26: the name new_task gives the input file of TaskId v is read back by
\* cleanup_task_files as v, for every v a TaskId can hold: parsing the
\* decimal representation of v yields v.
C26_DecimalRoundTrip ==
    rt.pc = "parsed" => rt.parsed = rt.id /\ rt.parsed # ParseError

\* the largest TaskId, three digits long, has gone to its name and back
C26_Witness ==
    rt.pc = "parsed" /\ rt.id = MaxId /\ Len(rt.name) = 3

----------------------------------------------------------------------------
(* C27 *)

\* C27: a task whose owner keeps polling and whose children all come to
\* their end, with success or with a failure, does not stay in the stage
\* it is in for ever: unless it is aborted or its poller panics it reaches
\* a terminal stage (Complete is the only one EncodingStage has).
C27_EveryTaskEnds == <>(enc.stage = "Complete" \/ enc.poller # "ok")

----------------------------------------------------------------------------
(* C28 *)

\* C28: the input file new_task wrote is there while its call goes on to
\* construct and register the Task, and while the Task registered under
\* the id is still to be analysed: no sweep removes it in between.
C28_SweepSparesAdmittedInput ==
    /\ adm.pc = "written" => to_string(adm.id) \in ins
    /\ \A j \in Keys : tasks[j].worker = "Analyse" => to_string(j) \in ins

----------------------------------------------------------------------------
(* C29 *)

\* the step gives a line of stdout to the loop of analyze_silence
LineRead == an.pc = "lines" /\ an'.read = an.read + 1

\* C29: a line that starts with "lavfi" and carries another key than the
\* one the parser expects in its state makes analyze_silence return an
\* error, in each of the three states; a line that does not start with
\* "lavfi" changes nothing but the count of lines read; and one range is
\* emitted for every three lines the parser takes.
C29_MiskeyedLineIsError ==
    [][LineRead =>
         /\ an'.miskeyed => an'.ret = "Err(IO)"
         /\ an'.lavfi = an.lavfi /\ an'.ret = "None" =>
               an'.parser = an.parser /\ an'.ranges = an.ranges
         /\ Len(an'.ranges) = an'.lavfi \div 3]_vars

----------------------------------------------------------------------------
(* C30 *)

\* C30: an analyze_silence call that returns has spawned one child, and
\* the exit status it acted upon is the one of the run whose output it read.
C30_OneChildPerAnalysis ==
    an.pc = "done" /\ an.ret \in {"Ok", "Err(FFmpeg)"} =>
        an.spawned = 1 /\ an.exit2 = an.exit1

----------------------------------------------------------------------------
(* C31 *)

\* the supervisor publishes the status it computed from the sample it read
SamplePublished ==
    /\ bc.open /\ bc'.open
    /\ bc.sample # NoSample
    /\ bc'.sent = bc.sent + 1
    /\ ~bc'.cancelled

\* C31: the status published for a progress sample differs from the status
\* before it only in the fields the sample carries: a sample with speed
\* alone keeps progress, a sample with out_time alone keeps speed; as long as
\* the encoder has emitted no speed, every published InProgress has speed 0;
\* a speed of 3 read before any out_time is published as InProgress{0, 3}.
C31_SampleUpdatesItsFieldOnly ==
    [][ SamplePublished =>
          /\ bc'.status.type = "InProgress"
          /\ Last(bc'.log) = bc'.status
          /\ bc.sample[1] = None => bc'.status.progress = bc.status.progress
          /\ bc.sample[2] = None => bc'.status.speed = bc.status.speed
          /\ bc.sample[2] # None => bc'.status.speed = bc.sample[2]
          /\ bc.sample[1] # None => bc'.status.progress = Clamp(bc.sample[1])
          /\ ~bc.speed_seen => bc'.status.speed = 0
          /\ (bc.sent = 0 /\ bc.sample = <<None, 3>>) => bc'.status = InProgress(0, 3) ]_vars

\* speed 3 came before the first out_time: InProgress{0, 3} was published,
\* then the out_time sample was published with the speed kept
C31_Witness ==
    /\ bc.open
    /\ bc.log = <<InProgress(0, 3), InProgress(1, 3)>>

----------------------------------------------------------------------------
(* C32 *)

\* list a is a subsequence of list b
RECURSIVE IsSubsequence(_, _)
IsSubsequence(a, b) ==
    IF a = <<>> THEN TRUE
    ELSE IF b = <<>> THEN FALSE
    ELSE IF Head(a) = Head(b) THEN IsSubsequence(Tail(a), Tail(b))
    ELSE IsSubsequence(a, Tail(b))

\* C32: the statuses of one Job are published in one order, and what each
\* subscriber has been sent so far is a subsequence of that order, also
\* when a cancel publishes between the publications of the supervisor.
C32_SubscribersSeeOneOrder ==
    bc.open =>
       /\ Len(bc.log) = bc.sent
       /\ \A r \in Receivers : IsSubsequence(bc.rx[r].seen, bc.log)

\* a cancel has published after the supervisor did, and two subscribers have
\* been sent different parts of the publication order
C32_Witness ==
    /\ bc.open /\ bc.cancelled
    /\ Len(bc.log) >= 3
    /\ bc.log[Len(bc.log) - 1].type = "InProgress"
    /\ Len(bc.rx[1].seen) >= 2 /\ Len(bc.rx[2].seen) >= 1
    /\ bc.rx[1].seen # bc.rx[2].seen
    /\ bc.rx[2].lagged > 0

----------------------------------------------------------------------------
(* C33 *)

\* the stream of receiver r has ended with a terminal status as its last
\* message
EndedWithTerminal(r) ==
    /\ bc.rx[r].st = "closed"
    /\ bc.rx[r].seen # <<>>
    /\ IsTerminal(Last(bc.rx[r].seen))

\* C33: the stream of a subscriber ends only with a terminal status, and a
\* subscriber that was told it lagged goes on with the oldest message still
\* in the buffer and comes to receive a terminal status as its last message.
C33_LaggedStillGetsTerminal ==
    /\ [](bc.open => \A r \in Receivers :
                        bc.rx[r].st = "closed" => EndedWithTerminal(r))
    /\ \A r \in Receivers :
          (bc.open /\ bc.rx[r].lagged > 0) ~> (bc.open /\ EndedWithTerminal(r))

\* a subscriber that lagged behind the buffer has its stream ended by the
\* terminal status, having missed messages
C33_Witness ==
    /\ bc.open
    /\ \E r \in Receivers :
          /\ bc.rx[r].lagged > 0
          /\ EndedWithTerminal(r)
          /\ Len(bc.rx[r].seen) < Len(bc.log)

----------------------------------------------------------------------------
(* C34 *)

\* the step is the response of the status handler to the request for rq'.t
StatusReturns == rq' # rq

\* the step is a subscribe() of status_ws
SubscribeStep == \E s \in Subscribers : subs[s].st = "idle" /\ subs'[s].st # "idle"

\* the step is one of the supervisor of the Task stored under j
SupervisorCall(j) ==
    /\ SameJob(j)
    /\ tasks'[j].cancels = tasks[j].cancels
    /\ tasks'[j].worker # tasks[j].worker \/ tasks'[j].samples # tasks[j].samples

\* C34: the status request answers with the current status of the Job when
\* the id is a key of the map and with NotFound when it is not; the request
\* and subscribe() leave the map, and so every Job's status and
\* completed_at, as they were; the status of a Job is changed only by a step
\* of its supervisor or by cancel.
C34_StatusReadsOnly ==
    [][ /\ StatusReturns =>
              /\ tasks' = tasks
              /\ rq'.t \in Keys => rq'.code = "Ok" /\ rq'.body = tasks[rq'.t].last_status
              /\ rq'.t \notin Keys => rq'.code = "NotFound"
        /\ SubscribeStep => tasks' = tasks
        /\ \A j \in Keys :
              (SameJob(j) /\ tasks'[j].last_status # tasks[j].last_status)
                 => SupervisorCall(j) \/ CancelCall(j) ]_vars

\* the request for the Job was answered with its terminal status, stamped
\* with completed_at, while a subscriber is attached
C34_Witness ==
    /\ rq.pc = "done" /\ rq.t \in Keys /\ rq.code = "Ok"
    /\ IsTerminal(rq.body)
    /\ tasks[rq.t].last_status = rq.body
    /\ tasks[rq.t].completed_at # None
    /\ \E s \in Subscribers : subs[s].st = "open"

----------------------------------------------------------------------------
(* C35 *)

\* C35: no task waits for ever for the lock of the map or for a status
\* lock: the cleaner (exclusive lock of the map, then the status lock of each
\* Job), new_task (exclusive), the handlers (shared, then the status lock)
\* and the supervisors (status lock alone) each come back to rest, and the
\* exclusive lock is never held together with another hold of the map.
C35_LocksNeverDeadlock ==
    /\ [](lk.on => (lk.w # "none" => lk.r = {}))
    /\ \A p \in Lockers : (lk.on /\ lk.pc[p] # "idle") ~> (lk.on /\ lk.pc[p] = "idle")

\* the cleaner holds the exclusive lock and waits for the status lock a
\* supervisor holds, while new_task and a handler wait for the map
C35_Witness ==
    /\ lk.on
    /\ lk.pc["cleaner"] = "iter" /\ lk.w = "cleaner"
    /\ \E j \in lk.todo : lk.st[j] # "none"
    /\ lk.pc["new_task"] = "wait_w"
    /\ \E p \in Readers : lk.pc[p] = "wait_r"

----------------------------------------------------------------------------
(* C36 *)

\* the place of stage s in the chain
StageIndex(s) == CHOOSE i \in 1..Len(Stages) : Stages[i] = s

\* C36: every step keeps the stage of the task or moves it to the stage
\* that follows it in Idle, CountFrames, DetectSilence, Split, Concat, Move,
\* ReEncode, Cleanup, Complete: no stage is skipped or entered again; a stage
\* whose future still reports Running is kept; Complete is never left.
C36_StagesInOrder ==
    [][ /\ StageIndex(enc'.stage) \in {StageIndex(enc.stage), StageIndex(enc.stage) + 1}
        /\ enc.stage = "Complete" => enc'.stage = "Complete"
        /\ (enc.stage \in ThreadStages /\ FFMpegThreadFuture_poll = "Running")
              => enc'.stage = enc.stage ]_vars

\* the task was polled through every stage to Complete, with as many
\* fragments as the bound allows
C36_Witness ==
    /\ enc.stage = "Complete"
    /\ enc.poller = "ok"
    /\ enc.periods = MaxPeriods

----------------------------------------------------------------------------
(* C37 *)

\* C37: completed_stages holds the stages the task has left, each once and
\* in the order of the chain, as many as there were stage changes; in
\* Complete these are the eight stages before it, Cleanup included.
C37_CompletedStagesRecordsAll ==
    enc.completed_stages = SubSeq(Stages, 1, StageIndex(enc.stage) - 1)

----------------------------------------------------------------------------
(* C38 *)

\* C38: the status of the future of a stage is written at most once: once it
\* is Finished or Aborted every later poll of that future reports the same;
\* a thread that has loaded should_stop as true reports Aborted, never
\* Finished.
C38_ThreadStatusSetOnce ==
    [][ /\ (enc'.stage = enc.stage /\ FFMpegThreadFuture_poll # "Running")
              => FFMpegThreadFuture_poll' = FFMpegThreadFuture_poll
        /\ enc'.observed => FFMpegThreadFuture_poll' = "Aborted" ]_vars

\* abort was called while fragments were encoded, the thread has seen
\* should_stop in its loop and the future reports Aborted
C38_Witness ==
    /\ enc.stage = "Split"
    /\ enc.should_abort /\ enc.observed
    /\ enc.spawned >= 2
    /\ FFMpegThreadFuture_poll = "Aborted"

----------------------------------------------------------------------------
(* C39 *)

\* C39: while the fragments are encoded at most two encoder children of the
\* task run at any time, and a stage that finished has spawned one child for
\* each audible period.
C39_TwoFragmentEncoders ==
    enc.stage = "Split" =>
       /\ enc.children <= 2
       /\ enc.thread = "Finished" => enc.spawned = enc.periods

----------------------------------------------------------------------------
(* C40 *)

\* C40: an input file is stored under the digest of its bytes, a derived
\* file under the identifier of its parent; a file that is in the bucket
\* stays there with the contents it was first written with, whatever is
\* uploaded for its identifier and kind afterwards, and an upload that finds
\* the file returns it.
C40_FirstWriterWins ==
    [][ fs.on =>
          /\ \A path \in DOMAIN fs.files :
                /\ path \in DOMAIN fs'.files
                /\ fs'.files[path] = fs.files[path]
          /\ \A path \in DOMAIN fs'.files :
                path[2] = "input" => path[1] = RemoteFileIdentifier_digest(fs'.files[path])
          /\ \A u \in Uploaders :
                (fs'.up[u] # fs.up[u] /\ fs'.up[u].pc = "idle")
                   => fs'.up[u].ret \in {"Ok", "WriteError"} ]_vars


====
